---- MODULE Spec2Model ----
(***************************************************************************)
(* Monophonic synthesizer: the note-priority state machine, the envelope   *)
(* controller and the audio-engine resume logic, as a state machine.       *)
(*                                                                         *)
(* Units.  Time is in milliseconds, frequencies are in decihertz (1/10    *)
(* Hz), gains and 0..1 levels are in 1/10000.  The host audio engine is    *)
(* modelled by its contract: an AudioParam is an intrinsic value plus a    *)
(* time-ordered list of automation events.                                 *)
(***************************************************************************)
EXTENDS Integers, Sequences, FiniteSets, TLC

\* ----- bounds of the model -----
NumKeys == 3
MaxTicks == 1
MaxPending == 2
LfoSampleRate == 8       \* the worklet scope's sampleRate, in frames per second
BlockLen == 2            \* frames per render quantum, output[0].length
MaxBlocks == 6           \* process() calls

\* ----- host values -----
SampleRate == 44100
TickMs == 4

\* ----- CONSTANTS & MAPPINGS -----
null == -1

octaveMultipliers ==
    << [n |-> 1, d |-> 8], [n |-> 1, d |-> 4], [n |-> 1, d |-> 2],
       [n |-> 1, d |-> 1], [n |-> 2, d |-> 1] >>

keyCodes ==
    << "KeyA", "KeyW", "KeyS", "KeyE", "KeyD", "KeyF", "KeyT",
       "KeyG", "KeyY", "KeyH", "KeyU", "KeyJ", "KeyK" >>

keyToNoteMap == [i \in 1..13 |-> 59 + i]

NoteCodes == {keyCodes[i] : i \in 1..13}

NoteOfCode(code) == keyToNoteMap[CHOOSE i \in 1..13 : keyCodes[i] = code]

\* 440 * 2^((n - 69) / 12), in decihertz, for the notes of the keyboard
midiToFreqTable ==
    << 2616, 2772, 2937, 3111, 3296, 3492, 3700,
       3920, 4153, 4400, 4662, 4939, 5233 >>

midiToFreq(midiNote) == midiToFreqTable[midiNote - 59]

MinFreq == 200
Nyquist == (SampleRate * 10) \div 2
MinRampMs == 1
GateEpsilon == 1
GatePeak == 10000
FullScale == 10000
PortamentoThresholdMs == 5
ParamRampMs == 10
KeyFollowRefNote == 69

Max(a, b) == IF a >= b THEN a ELSE b
Min(a, b) == IF a <= b THEN a ELSE b

Targets == {"vco1", "vco2", "filter", "vca"}

\* ----- SYNTH PARAMETERS (the ones the voice and the envelopes read) -----
defaultParams ==
    [ portamentoTime |-> 0,
      keyFollow      |-> 0,
      legato         |-> 1,
      vco1           |-> [octave |-> 2, type |-> "sawtooth"],
      vco2           |-> [octave |-> 2],
      vcfEnv         |-> [attack |-> 10, decay |-> 100, sustain |-> 8000, release |-> 200],
      vcaEnv         |-> [attack |-> 10, decay |-> 100, sustain |-> 10000, release |-> 200],
      filter         |-> [frequency |-> 200000, type |-> "lowpass"],
      vcfEnvGain     |-> [gain |-> 40000] ]

\* ----- CONTROLS (the knobs and switches the router is called with) -----
\* a JavaScript value: a number or a string
Num(n) == [kind |-> "number", n |-> n, tag |-> ""]
Str(t) == [kind |-> "string", n |-> 0, tag |-> t]
NaN == [kind |-> "NaN", n |-> 0, tag |-> ""]
\* the number n + 1/2: a number that is not an integer
Frac(n) == [kind |-> "fraction", n |-> n, tag |-> ""]

vcoWaveforms == << "triangle", "sawtooth", "square", "sine" >>

\* parseFloat of a step string: the number a numeral denotes, NaN for a name
numerals == << "0", "1", "2", "3", "4" >>
parseFloat(str) ==
    IF \E i \in 1..Len(numerals) : numerals[i] = str
    THEN Num((CHOOSE i \in 1..Len(numerals) : numerals[i] = str) - 1)
    ELSE NaN

\* the knobs of the two envelopes: the envelope and the stage each one sets
envelopeKnobs ==
    [ path \in {"vcfEnv.attack", "vcfEnv.decay", "vcfEnv.sustain", "vcfEnv.release",
                "vcaEnv.attack", "vcaEnv.decay", "vcaEnv.sustain", "vcaEnv.release"} |->
        [ env   |-> IF path \in {"vcfEnv.attack", "vcfEnv.decay", "vcfEnv.sustain",
                                 "vcfEnv.release"} THEN "vcfEnv" ELSE "vcaEnv",
          stage |-> CASE path \in {"vcfEnv.attack", "vcaEnv.attack"} -> "attack"
                      [] path \in {"vcfEnv.decay", "vcaEnv.decay"} -> "decay"
                      [] path \in {"vcfEnv.sustain", "vcaEnv.sustain"} -> "sustain"
                      [] OTHER -> "release" ] ]

Knobs ==
    {"portamentoTime", "filter.frequency.value", "vco1.octave", "vco2.octave", "vco1.type"}
    \cup DOMAIN envelopeKnobs
Switches == {"legato", "keyFollow", "filter.type"}

\* data-steps of a knob (none for a continuous knob)
knobSteps(path) ==
    CASE path \in {"vco1.octave", "vco2.octave"} -> numerals
      [] path = "vco1.type" -> vcoWaveforms
      [] OTHER -> << >>

\* data-min and data-max of a knob: milliseconds, decihertz, step indices
knobMin(path) ==
    IF path = "filter.frequency.value" THEN 200 ELSE 0
knobMax(path) ==
    CASE path = "portamentoTime" -> 2000
      [] path = "filter.frequency.value" -> 200000
      [] path \in DOMAIN envelopeKnobs ->
            (IF envelopeKnobs[path].stage = "sustain" THEN FullScale ELSE 5000)
      [] OTHER -> Len(knobSteps(path)) - 1

\* data-values of a switch (none for an on/off switch)
switchValues(path) == IF path = "filter.type" THEN << "lowpass", "bandpass" >> ELSE << >>

\* the panel as the document declares it: every knob's data-value and every
\* switch's data-state
defaultControls ==
    [ value |-> [k \in Knobs |->
                   CASE k = "portamentoTime" -> 0
                     [] k = "filter.frequency.value" -> 200000
                     [] k \in DOMAIN envelopeKnobs ->
                           defaultParams[envelopeKnobs[k].env][envelopeKnobs[k].stage]
                     [] k = "vco1.type" -> 1
                     [] OTHER -> 2],
      state |-> [w \in Switches |-> IF w = "keyFollow" THEN "down" ELSE "up"] ]

\* ----- AudioParam automation (host contract) -----
\* An event: its kind (set, ramp, target), its value, its time, the time
\* constant and the start value of a target approach, and who scheduled it
\* when (by, at).
Event(k, v, t, tc, v0, by, at) ==
    [k |-> k, v |-> v, t |-> t, tc |-> tc, v0 |-> v0, by |-> by, at |-> at]

cancelScheduledValues(tl, t) == SelectSeq(tl, LAMBDA e : e.t < t)

\* the value an AudioParam reads at time t: the intrinsic value before any
\* event, a linear interpolation inside a ramp, an approach to the target
\* (settled after five time constants) after a setTargetAtTime
ValueAt(tl, intr, t) ==
    LET past   == SelectSeq(tl, LAMBDA e : e.t <= t)
        future == SelectSeq(tl, LAMBDA e : e.t > t)
    IN  IF past = << >> THEN intr
        ELSE LET last == past[Len(past)]
             IN  IF last.k = "target"
                 THEN IF t - last.t >= 5 * last.tc
                      THEN last.v
                      ELSE last.v0 + ((last.v - last.v0) * (t - last.t)) \div (5 * last.tc)
                 ELSE IF future # << >> /\ future[1].k = "ramp"
                 THEN last.v + ((future[1].v - last.v) * (t - last.t)) \div (future[1].t - last.t)
                 ELSE last.v

\* the events behind the clock that a later event behind the clock supersedes
\* no longer influence any value: the engine forgets them
forget(tl, t) ==
    LET past == SelectSeq(tl, LAMBDA e : e.t <= t)
    IN  IF Len(past) <= 1 THEN tl ELSE SubSeq(tl, Len(past), Len(tl))

insertEvent(tl, e) ==
    forget(SelectSeq(tl, LAMBDA x : x.t <= e.t) \o << e >> \o SelectSeq(tl, LAMBDA x : x.t > e.t),
           e.at)

setValueAtTime(tl, v, t, by, at) == insertEvent(tl, Event("set", v, t, 0, 0, by, at))

linearRampToValueAtTime(tl, v, t, by, at) == insertEvent(tl, Event("ramp", v, t, 0, 0, by, at))

\* v0 is the value the approach starts from
setTargetAtTime(tl, v0, v, t, tc, by, at) ==
    insertEvent(tl, Event("target", v, t, tc, v0, by, at))

\* ----- UTILITY FUNCTIONS -----
calculateVcoFrequency_NearestIndex(baseFreq, octave) ==
    LET octaveIndex == Max(0, Min(Len(octaveMultipliers) - 1, octave))
        m    == octaveMultipliers[octaveIndex + 1]
        freq == (baseFreq * m.n) \div m.d
    IN  [freq |-> Max(MinFreq, Min(Nyquist, freq)), octave |-> octaveIndex,
         warned |-> (octave < 0 \/ octave >= Len(octaveMultipliers))]

calculateVcoFrequency(baseFreq, octave) ==
    LET octaveIndex == IF octave < 0 \/ octave >= Len(octaveMultipliers) THEN 2 ELSE octave
        m    == octaveMultipliers[octaveIndex + 1]
        freq == (baseFreq * m.n) \div m.d
    IN  [freq |-> Max(MinFreq, Min(Nyquist, freq)), octave |-> octaveIndex,
         warned |-> (octave < 0 \/ octave >= Len(octaveMultipliers))]

\* calculateVcoFrequency for whatever value vcoParams.octave holds: freq is the
\* value returned, octave the value the call leaves in vcoParams.octave,
\* warned the console.warn of the validation, fatal the console.error of the
\* non-finite guard
FallbackFreq == 4400
calculateVcoFrequencyOfValue(baseFreq, octave) ==
    LET typeofNumber == octave.kind \in {"number", "fraction", "NaN"}
        isNaN        == octave.kind = "NaN"
        \* n + 1/2 < 0 iff n < 0, and n + 1/2 >= length iff n >= length
        invalid      == \/ ~typeofNumber
                        \/ isNaN
                        \/ octave.n < 0
                        \/ octave.n >= Len(octaveMultipliers)
    IN  IF invalid
        THEN [freq |-> calculateVcoFrequency(baseFreq, 2).freq,
              octave |-> Num(2), warned |-> TRUE, fatal |-> FALSE]
        ELSE IF octave.kind = "number"
        THEN [freq |-> calculateVcoFrequency(baseFreq, octave.n).freq,
              octave |-> octave, warned |-> FALSE, fatal |-> FALSE]
        \* octaveMultipliers[n + 1/2] is undefined: freq and safeFreq are NaN
        ELSE [freq |-> FallbackFreq,
              octave |-> octave, warned |-> FALSE, fatal |-> TRUE]

\* ----- ENVELOPE FUNCTIONS -----
keyFollowAmountTwelfths(p, baseNote) ==
    IF 2 * p.keyFollow > 1 THEN baseNote - KeyFollowRefNote ELSE 0

\* knobBaseFreq + keyFollowAmount * (knobBaseFreq * 0.2), floored at 20 Hz
baseFreqWithKeyFollow(p, baseNote) ==
    LET knobBaseFreq == p.filter.frequency
        keyFollowHz  == (keyFollowAmountTwelfths(p, baseNote) * knobBaseFreq * 2) \div 120
    IN  Max(MinFreq, knobBaseFreq + keyFollowHz)

clampFreq_NoCeiling(f) == Max(MinFreq, f)

clampFreq(f) == Min(Nyquist, Max(MinFreq, f))

scheduleTrigger_NoFloor(envParams, tl, sustainValue, t, isVcf, baseNote, p) ==
    LET base       == baseFreqWithKeyFollow(p, baseNote)
        envMod     == p.vcfEnvGain.gain
        startV     == IF isVcf THEN clampFreq(base) ELSE GateEpsilon
        peakV      == IF isVcf THEN clampFreq(base + envMod) ELSE GatePeak
        sustainV   == IF isVcf
                      THEN clampFreq(base + (sustainValue * envMod) \div FullScale)
                      ELSE Max(GateEpsilon, sustainValue)
        e1 == setValueAtTime(tl, startV, t, "trigger", t)
        e2 == linearRampToValueAtTime(e1, peakV, t + envParams.attack, "trigger", t)
    IN  linearRampToValueAtTime(e2, sustainV, t + envParams.attack + envParams.decay,
                                "trigger", t)

scheduleTrigger(envParams, tl, sustainValue, t, isVcf, baseNote, p) ==
    LET safeAttack == Max(MinRampMs, envParams.attack)
        safeDecay  == Max(MinRampMs, envParams.decay)
        base       == baseFreqWithKeyFollow(p, baseNote)
        envMod     == p.vcfEnvGain.gain
        startV     == IF isVcf THEN clampFreq(base) ELSE GateEpsilon
        peakV      == IF isVcf THEN clampFreq(base + envMod) ELSE GatePeak
        sustainV   == IF isVcf
                      THEN clampFreq(base + (sustainValue * envMod) \div FullScale)
                      ELSE Max(GateEpsilon, sustainValue)
        e1 == setValueAtTime(tl, startV, t, "trigger", t)
        e2 == linearRampToValueAtTime(e1, peakV, t + safeAttack, "trigger", t)
    IN  linearRampToValueAtTime(e2, sustainV, t + safeAttack + safeDecay, "trigger", t)

triggerEnvelope_NoCancel(envParams, tl, sustainValue, t, isVcf, baseNote, p) ==
    scheduleTrigger(envParams, tl, sustainValue, t, isVcf, baseNote, p)

triggerEnvelope(envParams, tl, sustainValue, t, isVcf, baseNote, p) ==
    scheduleTrigger(envParams, cancelScheduledValues(tl, t), sustainValue, t,
                    isVcf, baseNote, p)

releaseTargetValue_KnobOnly(isVcf, baseNote, p) ==
    IF isVcf THEN clampFreq(p.filter.frequency) ELSE GateEpsilon

releaseTargetValue(isVcf, baseNote, p) ==
    IF isVcf THEN clampFreq(baseFreqWithKeyFollow(p, baseNote)) ELSE GateEpsilon

releaseEnvelope(envParams, tl, value, t, isVcf, baseNote, p) ==
    LET safeRelease == Max(MinRampMs, envParams.release)
        e0 == cancelScheduledValues(tl, t)
        e1 == setValueAtTime(e0, value, t, "release", t)
    IN  linearRampToValueAtTime(e1, releaseTargetValue(isVcf, baseNote, p),
                                t + safeRelease, "release", t)

\* ----- RandomLfoProcessor (random-lfo-processor.js) -----
\* Phases and intervals are exact multiples of 1/phaseUnit frame: phaseUnit is
\* a common multiple of the frequencies drawn, so sampleRate / frequency and
\* every remainder the phase keeps are represented exactly.
LfoFrequencies == {-1, 0, 1, 4, 5}

phaseUnit == 4 * 5

LfoDefaultFrequency == 5

Infinity == -1

\* what Math.random() returns, in 1/10000
RandomValues == {0, 9999}

\* the constructor; frames, refreshes, prevRefresh, blockRefreshes, steady,
\* positive and changedAt observe the run: the frames processed, the refreshes
\* performed, the frame of the last refresh before the latest block, the
\* frames of the refreshes in the latest block, whether the frequency
\* parameter has had one value since construction, whether it has always been
\* above zero, and the frame count when it last changed
newProcessor ==
    [ phase |-> 0, currentValue |-> 0,
      updateInterval |-> (LfoSampleRate * phaseUnit) \div LfoDefaultFrequency,
      lastFrequency |-> LfoDefaultFrequency,
      frames |-> 0, refreshes |-> 0, prevRefresh |-> 0, blockRefreshes |-> << >>,
      steady |-> TRUE, positive |-> TRUE, paramFrequency |-> LfoDefaultFrequency,
      changedAt |-> 0 ]

recalculateInterval_NoFreeze(p, frequency) ==
    [p EXCEPT !.updateInterval = IF frequency > 0
                                 THEN (LfoSampleRate * phaseUnit) \div frequency ELSE @,
              !.lastFrequency = frequency]

recalculateInterval(p, frequency) ==
    [p EXCEPT !.updateInterval = IF frequency > 0
                                 THEN (LfoSampleRate * phaseUnit) \div frequency
                                 ELSE Infinity,
              !.lastFrequency = frequency]

processFrame_ResetToZero(p, samplesPerCycle, random) ==
    LET phase1 == p.phase + phaseUnit
    IN  IF samplesPerCycle # Infinity /\ phase1 >= samplesPerCycle
        THEN [p EXCEPT !.phase = 0,
                       !.currentValue = random * 2 - FullScale,
                       !.frames = @ + 1, !.refreshes = @ + 1,
                       !.blockRefreshes = Append(@, p.frames + 1)]
        ELSE [p EXCEPT !.phase = phase1, !.frames = @ + 1]

processFrame_KeepsPhase(p, samplesPerCycle, random) ==
    LET phase1 == p.phase + phaseUnit
    IN  IF samplesPerCycle # Infinity /\ phase1 >= samplesPerCycle
        THEN [p EXCEPT !.phase = phase1,
                       !.currentValue = random * 2 - FullScale,
                       !.frames = @ + 1, !.refreshes = @ + 1,
                       !.blockRefreshes = Append(@, p.frames + 1)]
        ELSE [p EXCEPT !.phase = phase1, !.frames = @ + 1]

\* one iteration of the loop over the block's frames
processFrame(p, samplesPerCycle, random) ==
    LET phase1 == p.phase + phaseUnit
    IN  IF samplesPerCycle # Infinity /\ phase1 >= samplesPerCycle
        THEN [p EXCEPT !.phase = phase1 - samplesPerCycle,
                       !.currentValue = random * 2 - FullScale,
                       !.frames = @ + 1, !.refreshes = @ + 1,
                       !.blockRefreshes = Append(@, p.frames + 1)]
        ELSE [p EXCEPT !.phase = phase1, !.frames = @ + 1]

RECURSIVE processFrames(_, _, _)
processFrames(p, samplesPerCycle, randoms) ==
    IF randoms = << >> THEN p
    ELSE processFrames(processFrame(p, samplesPerCycle, Head(randoms)),
                       samplesPerCycle, Tail(randoms))

\* process(): the k-rate frequency of the block, then the block's frames
process(p, frequency, randoms) ==
    LET p0 == [p EXCEPT !.prevRefresh = IF p.blockRefreshes = << >> THEN @
                                        ELSE p.blockRefreshes[Len(p.blockRefreshes)],
                        !.blockRefreshes = << >>,
                        !.steady = (@ \/ p.frames = 0) /\ (p.frames = 0 \/ frequency = p.paramFrequency),
                        !.positive = @ /\ frequency > 0,
                        !.changedAt = IF p.frames = 0 \/ frequency # p.paramFrequency
                                      THEN p.frames ELSE @,
                        !.paramFrequency = frequency]
        p1 == IF frequency # p0.lastFrequency THEN recalculateInterval(p0, frequency) ELSE p0
    IN  processFrames(p1, p1.updateInterval, randoms)

\* ----- STATE -----
VARIABLES
    loaded,             \* DOMContentLoaded has run
    audioContext,       \* the AudioContext object exists
    acState,            \* audioContext.state
    nodes,              \* vco1, vco2, filter, vcaGainNode ... are created
    isAudioInitialized,
    isAudioResumed,
    params,
    pressedKeys,        \* the codes whose entry in pressedKeys is true
    currentNote,
    currentFrequency,
    intrinsic,          \* each AudioParam's value before any automation
    automation,         \* each AudioParam's list of automation events
    controls,           \* every knob's dataset.value and every switch's dataset.state
    graph,              \* the attributes of the live nodes, and how the graph was built
    warnings,           \* the "Invalid VCO Octave Index" warnings on the console
    now,                \* audioContext.currentTime
    pending,            \* the handlers awaiting audioContext.resume(), oldest first
    ev,                 \* the last key or focus event that was not ignored, and its branch
    proc,               \* the RandomLfoProcessor instance
    calc,               \* one call of calculateVcoFrequency: its arguments and what it returned
    keyboard            \* the keys physically down, and why the last key-down was ignored, if it was

vars == << loaded, audioContext, acState, nodes, isAudioInitialized, isAudioResumed,
           params, pressedKeys, currentNote, currentFrequency, intrinsic, automation,
           controls, graph, warnings,
           now, pending, ev, proc, calc, keyboard >>

engine == << audioContext, acState, nodes, isAudioInitialized, isAudioResumed,
             params, pressedKeys, currentNote, currentFrequency, intrinsic, automation,
             controls, graph, warnings >>

\* the keys events are drawn from: the first NumKeys note keys and one other key
Codes == {keyCodes[i] : i \in 1..Min(NumKeys, 13)} \cup {"KeyZ"}

PortamentoValues == {0, 200}
FilterValues == {200000}

Cur ==
    [ audioContext |-> audioContext, acState |-> acState, nodes |-> nodes,
      isAudioInitialized |-> isAudioInitialized, isAudioResumed |-> isAudioResumed,
      params |-> params, pressedKeys |-> pressedKeys, currentNote |-> currentNote,
      currentFrequency |-> currentFrequency, intrinsic |-> intrinsic,
      automation |-> automation, controls |-> controls, graph |-> graph,
      warnings |-> warnings ]

Commit(s) ==
    /\ audioContext' = s.audioContext
    /\ acState' = s.acState
    /\ nodes' = s.nodes
    /\ isAudioInitialized' = s.isAudioInitialized
    /\ isAudioResumed' = s.isAudioResumed
    /\ params' = s.params
    /\ pressedKeys' = s.pressedKeys
    /\ currentNote' = s.currentNote
    /\ currentFrequency' = s.currentFrequency
    /\ intrinsic' = s.intrinsic
    /\ automation' = s.automation
    /\ controls' = s.controls
    /\ graph' = s.graph
    /\ warnings' = s.warnings

Ev(h, res) == [h |-> h, res |-> res]

isHeld(pk, code) == code \in pk

setKey(pk, code, b) == IF b THEN pk \cup {code} ELSE pk \ {code}

noKeys == {}

\* ----- helpers of both envelopes -----
triggerEnvelopes(s, note, t) ==
    IF ~s.nodes THEN s
    ELSE [s EXCEPT
            !.automation.filter =
                triggerEnvelope(s.params.vcfEnv, @, s.params.vcfEnv.sustain, t, TRUE, note, s.params),
            !.automation.vca =
                triggerEnvelope(s.params.vcaEnv, @, s.params.vcaEnv.sustain, t, FALSE,
                                KeyFollowRefNote, s.params)]

releaseEnvelopes_FromSustain(s, note, t) ==
    IF ~s.nodes THEN s
    ELSE [s EXCEPT
            !.automation.filter =
                releaseEnvelope(s.params.vcfEnv, @,
                                clampFreq(baseFreqWithKeyFollow(s.params, note)
                                          + (s.params.vcfEnv.sustain * s.params.vcfEnvGain.gain)
                                            \div FullScale),
                                t, TRUE, note, s.params),
            !.automation.vca =
                releaseEnvelope(s.params.vcaEnv, @, Max(GateEpsilon, s.params.vcaEnv.sustain),
                                t, FALSE, KeyFollowRefNote, s.params)]

releaseEnvelopes(s, note, t) ==
    IF ~s.nodes THEN s
    ELSE [s EXCEPT
            !.automation.filter =
                releaseEnvelope(s.params.vcfEnv, @, ValueAt(@, s.intrinsic.filter, t), t,
                                TRUE, note, s.params),
            !.automation.vca =
                releaseEnvelope(s.params.vcaEnv, @, ValueAt(@, s.intrinsic.vca, t), t,
                                FALSE, KeyFollowRefNote, s.params)]

\* ----- MONOPHONIC NOTE HANDLING -----
portamentoOf_AnyPositive(p) == p.portamentoTime

portamentoOf(p) == IF p.portamentoTime > PortamentoThresholdMs THEN p.portamentoTime ELSE 0

shouldRetrigger_Always(p) == TRUE

shouldRetrigger(p) == 2 * p.legato < 1

\* cancel what is scheduled on one oscillator's frequency, then glide or jump
\* (the program never reads an oscillator's frequency back: the value a glide
\* starts from is not tracked)
setOscFrequency(tl, intr, freq, t, portamento) ==
    IF portamento > 0
    THEN setTargetAtTime(cancelScheduledValues(tl, t), 0, freq, t, portamento \div 4, "pitch", t)
    ELSE setValueAtTime(cancelScheduledValues(tl, t), freq, t, "pitch", t)

setOscFrequencies(s, baseFreq, t, portamento) ==
    LET c1 == calculateVcoFrequency(baseFreq, s.params.vco1.octave)
        c2 == calculateVcoFrequency(baseFreq, s.params.vco2.octave)
    IN  [s EXCEPT !.params.vco1.octave = c1.octave,
                  !.params.vco2.octave = c2.octave,
                  !.warnings = @ + (IF c1.warned THEN 1 ELSE 0) + (IF c2.warned THEN 1 ELSE 0),
                  !.automation.vco1 = setOscFrequency(@, s.intrinsic.vco1, c1.freq, t, portamento),
                  !.automation.vco2 = setOscFrequency(@, s.intrinsic.vco2, c2.freq, t, portamento)]

noteOnTransition_KeepHigher(s, note, freq, t) ==
    IF note < s.currentNote THEN s
    ELSE LET s1 == [s EXCEPT !.currentFrequency = freq, !.currentNote = note]
             s2 == setOscFrequencies(s1, freq, t, portamentoOf(s.params))
         IN  IF shouldRetrigger(s.params) THEN triggerEnvelopes(s2, note, t) ELSE s2

noteOnTransition(s, note, freq, t) ==
    LET s1 == [s EXCEPT !.currentFrequency = freq, !.currentNote = note]
        s2 == setOscFrequencies(s1, freq, t, portamentoOf(s.params))
    IN  IF shouldRetrigger(s.params) THEN triggerEnvelopes(s2, note, t) ELSE s2

noteOnFirst_Portamento(s, note, freq, t) ==
    LET s1 == [s EXCEPT !.currentFrequency = freq, !.currentNote = note]
    IN  triggerEnvelopes(setOscFrequencies(s1, freq, t, portamentoOf(s.params)), note, t)

noteOnFirst(s, note, freq, t) ==
    LET s1 == [s EXCEPT !.currentFrequency = freq, !.currentNote = note]
    IN  triggerEnvelopes(setOscFrequencies(s1, freq, t, 0), note, t)

noteOnReady(s) == s.audioContext /\ s.acState = "running" /\ s.nodes

noteOn(s, note, freq, t) ==
    IF ~noteOnReady(s) THEN s
    ELSE IF s.currentNote # null THEN noteOnTransition(s, note, freq, t)
    ELSE noteOnFirst(s, note, freq, t)

remainingHeldCodes(pk) == {c \in pk : c \in NoteCodes}

lastNotePriority_Lowest(codes) ==
    LET held == {NoteOfCode(c) : c \in codes}
    IN  CHOOSE n \in held : \A m \in held : m >= n

\* the forEach over the remaining held codes: the highest note among them
lastNotePriority(codes) ==
    LET held == {NoteOfCode(c) : c \in codes}
    IN  CHOOSE n \in held : \A m \in held : m <= n

noteOffTransition_Retrigger(s, remaining, t) ==
    LET lastNote     == lastNotePriority(remaining)
        lastNoteFreq == midiToFreq(lastNote)
        s1 == setOscFrequencies(s, lastNoteFreq, t, portamentoOf(s.params))
        s2 == [s1 EXCEPT !.currentFrequency = lastNoteFreq, !.currentNote = lastNote]
    IN  IF shouldRetrigger(s.params) THEN triggerEnvelopes(s2, lastNote, t) ELSE s2

noteOffTransition_KeepsNote(s, remaining, t) ==
    setOscFrequencies(s, midiToFreq(lastNotePriority(remaining)), t, portamentoOf(s.params))

noteOffTransition(s, remaining, t) ==
    LET lastNote     == lastNotePriority(remaining)
        lastNoteFreq == midiToFreq(lastNote)
        s1 == setOscFrequencies(s, lastNoteFreq, t, portamentoOf(s.params))
    IN  [s1 EXCEPT !.currentFrequency = lastNoteFreq, !.currentNote = lastNote]

noteOffLast_RefNote(s, t) ==
    [releaseEnvelopes(s, KeyFollowRefNote, t) EXCEPT !.currentNote = null, !.currentFrequency = 0]

noteOffLast(s, t) ==
    [releaseEnvelopes(s, s.currentNote, t) EXCEPT !.currentNote = null, !.currentFrequency = 0]

noteOffReady(s) == s.isAudioInitialized /\ s.isAudioResumed /\ s.currentNote # null /\ s.nodes

noteOff_AnyRelease(s, note, t) ==
    IF ~noteOffReady(s) THEN s
    ELSE IF remainingHeldCodes(s.pressedKeys) # {}
    THEN noteOffTransition(s, remainingHeldCodes(s.pressedKeys), t)
    ELSE noteOffLast(s, t)

noteOff(s, note, t) ==
    IF ~noteOffReady(s) THEN s
    ELSE IF note # s.currentNote THEN s
    ELSE IF remainingHeldCodes(s.pressedKeys) # {}
    THEN noteOffTransition(s, remainingHeldCodes(s.pressedKeys), t)
    ELSE noteOffLast(s, t)

\* ----- AUDIO CONTEXT & INITIALIZATION -----
\* ensureAudioContextResumed up to its await: "true", "false", or "await" when
\* audioContext.resume() was called and its promise is not settled yet
ensureSyncResult(s) ==
    IF ~s.audioContext THEN "false"
    ELSE IF s.acState = "running" THEN "true"
    ELSE IF s.acState = "suspended" THEN "await"
    ELSE "false"

ensureSyncState(s) ==
    IF ~s.audioContext THEN s
    ELSE IF s.acState = "running" THEN [s EXCEPT !.isAudioResumed = TRUE]
    ELSE IF s.acState = "suspended" THEN s
    ELSE [s EXCEPT !.isAudioResumed = FALSE]

\* ensureAudioContextResumed after its await: the context is running (ok), or
\* it is still not running, or the promise was rejected
ensureSettled(s, ok) ==
    IF ok THEN [s EXCEPT !.isAudioResumed = TRUE] ELSE [s EXCEPT !.isAudioResumed = FALSE]

\* the nodes initAudio creates and the sources it starts, in its order
createdNodes ==
    << "masterGain", "vco1", "vco2", "vco1Gain", "vco2Gain", "noiseSource", "noiseGain",
       "lfo", "vco1LfoGain", "vco2LfoGain", "vcfLfoGain", "vcaLfoGain", "filter",
       "vcfEnvGain", "vcaGainNode", "reverb", "reverbWetGain", "reverbDryGain" >>

startedSources == << "lfo", "vco1", "vco2", "noiseSource" >>

initOrder ==
    [i \in 1..Len(createdNodes) |-> [op |-> "create", node |-> createdNodes[i]]]
    \o [i \in 1..Len(startedSources) |-> [op |-> "start", node |-> startedSources[i]]]

noGraph == [vco1Type |-> "", filterType |-> "", constructions |-> 0, log |-> << >>]

\* initAudio: outcome "fail" is the engine being unavailable (the constructor
\* throws); otherwise the state the new context starts in
initAudio_FlagNotSet(s, outcome) ==
    IF s.isAudioInitialized THEN s
    ELSE IF outcome = "fail" THEN [s EXCEPT !.isAudioInitialized = FALSE]
    ELSE [s EXCEPT !.audioContext = TRUE,
                   !.nodes = TRUE,
                   !.acState = outcome,
                   !.graph = [vco1Type |-> s.params.vco1.type,
                              filterType |-> s.params.filter.type,
                              constructions |-> @.constructions + 1,
                              log |-> @.log \o initOrder],
                   !.intrinsic = [vco1 |-> 4400, vco2 |-> 4400,
                                  filter |-> s.params.filter.frequency, vca |-> 0],
                   !.isAudioResumed = (outcome = "running")]

initAudio_FailKeepsFlag(s, outcome) ==
    IF s.isAudioInitialized THEN s
    ELSE IF outcome = "fail" THEN [s EXCEPT !.isAudioInitialized = TRUE]
    ELSE [s EXCEPT !.audioContext = TRUE,
                   !.isAudioInitialized = TRUE,
                   !.nodes = TRUE,
                   !.acState = outcome,
                   !.graph = [vco1Type |-> s.params.vco1.type,
                              filterType |-> s.params.filter.type,
                              constructions |-> @.constructions + 1,
                              log |-> @.log \o initOrder],
                   !.intrinsic = [vco1 |-> 4400, vco2 |-> 4400,
                                  filter |-> s.params.filter.frequency, vca |-> 0],
                   !.isAudioResumed = (outcome = "running")]

initAudio(s, outcome) ==
    IF s.isAudioInitialized THEN s
    ELSE IF outcome = "fail" THEN [s EXCEPT !.isAudioInitialized = FALSE]
    ELSE [s EXCEPT !.audioContext = TRUE,
                   !.isAudioInitialized = TRUE,
                   !.nodes = TRUE,
                   !.acState = outcome,
                   !.graph = [vco1Type |-> s.params.vco1.type,
                              filterType |-> s.params.filter.type,
                              constructions |-> @.constructions + 1,
                              log |-> @.log \o initOrder],
                   !.intrinsic = [vco1 |-> 4400, vco2 |-> 4400,
                                  filter |-> s.params.filter.frequency, vca |-> 0],
                   !.isAudioResumed = (outcome = "running")]

\* ----- PARAMETER ROUTER -----
\* the step a stepped knob lands on: the requested index (a whole number
\* wherever the router is called from), clamped to the step list
stepIndexOf(path, newValue) == Max(0, Min(Len(knobSteps(path)) - 1, newValue))

clampToRange_Unclamped(path, newValue) == newValue

clampToRange(path, newValue) == Max(knobMin(path), Min(knobMax(path), newValue))

\* targetValue: what the control keeps (a knob's dataset.value is the step
\* index or the clamped value, a switch's dataset.state the state)
targetValue(path, newValue) ==
    IF knobSteps(path) # << >> THEN stepIndexOf(path, newValue)
    ELSE clampToRange(path, newValue)

stepValue_Index(path, stepIndex) == Num(stepIndex)

\* the value of a step: the number its string denotes, or the string itself
stepValue(path, stepIndex) ==
    LET stepValueStr == knobSteps(path)[stepIndex + 1]
    IN  IF parseFloat(stepValueStr) = NaN THEN Str(stepValueStr) ELSE parseFloat(stepValueStr)

\* actualAudioValue: what is stored in params and sent to the node
actualAudioValue(path, newValue) ==
    IF path \in Knobs
    THEN IF knobSteps(path) # << >>
         THEN stepValue(path, stepIndexOf(path, newValue))
         ELSE Num(clampToRange(path, newValue))
    ELSE IF switchValues(path) # << >>
         THEN Str(IF newValue = "up" THEN switchValues(path)[1] ELSE switchValues(path)[2])
         ELSE Num(IF newValue = "up" THEN 1 ELSE 0)

\* the write into params; with the step lists above an octave is always a
\* number and a type always a string
storeParam(p, path, value) ==
    CASE path = "legato" -> [p EXCEPT !.legato = value.n]
      [] path = "keyFollow" -> [p EXCEPT !.keyFollow = value.n]
      [] path = "portamentoTime" -> [p EXCEPT !.portamentoTime = value.n]
      [] path = "filter.frequency.value" -> [p EXCEPT !.filter.frequency = value.n]
      [] path \in DOMAIN envelopeKnobs ->
            [p EXCEPT ![envelopeKnobs[path].env][envelopeKnobs[path].stage] = value.n]
      [] path = "filter.type" -> [p EXCEPT !.filter.type = value.tag]
      [] path = "vco1.type" -> [p EXCEPT !.vco1.type = value.tag]
      [] path = "vco1.octave" -> [p EXCEPT !.vco1.octave = value.n]
      [] path = "vco2.octave" -> [p EXCEPT !.vco2.octave = value.n]

\* the read of a path of params, as a JavaScript value
storedValue(p, path) ==
    CASE path = "legato" -> Num(p.legato)
      [] path = "keyFollow" -> Num(p.keyFollow)
      [] path = "portamentoTime" -> Num(p.portamentoTime)
      [] path = "filter.frequency.value" -> Num(p.filter.frequency)
      [] path \in DOMAIN envelopeKnobs ->
            Num(p[envelopeKnobs[path].env][envelopeKnobs[path].stage])
      [] path = "filter.type" -> Str(p.filter.type)
      [] path = "vco1.type" -> Str(p.vco1.type)
      [] path = "vco1.octave" -> Num(p.vco1.octave)
      [] path = "vco2.octave" -> Num(p.vco2.octave)

setControl(c, path, newValue) ==
    IF path \in Knobs THEN [c EXCEPT !.value[path] = targetValue(path, newValue)]
    ELSE [c EXCEPT !.state[path] = newValue]

octaveUpdate_AlsoWhenSilent(s, osc, t) ==
    LET c == calculateVcoFrequency(s.currentFrequency, s.params[osc].octave)
    IN  [s EXCEPT !.params[osc].octave = c.octave,
                  !.warnings = @ + (IF c.warned THEN 1 ELSE 0),
                  !.automation[osc] =
                      setTargetAtTime(@, ValueAt(@, s.intrinsic[osc], t), c.freq, t,
                                      ParamRampMs * 2, "param", t)]

\* an octave change reaches the oscillator only while a note sounds
octaveUpdate(s, osc, t) ==
    IF s.currentNote = null THEN s
    ELSE LET c == calculateVcoFrequency(s.currentFrequency, s.params[osc].octave)
         IN  [s EXCEPT !.params[osc].octave = c.octave,
                       !.warnings = @ + (IF c.warned THEN 1 ELSE 0),
                       !.automation[osc] =
                           setTargetAtTime(@, ValueAt(@, s.intrinsic[osc], t), c.freq, t,
                                           ParamRampMs * 2, "param", t)]

updateNode_CancelsGate(s, path, valueToSet, t) ==
    [s EXCEPT !.automation.vca = cancelScheduledValues(@, t)]

\* the update of the live node: direct parameters, then the ones that act
\* on the running oscillators; every other path has no node to update
updateNode(s, path, valueToSet, t) ==
    CASE path = "filter.frequency.value" ->
            [s EXCEPT !.automation.filter =
                setTargetAtTime(@, ValueAt(@, s.intrinsic.filter, t), valueToSet.n, t,
                                ParamRampMs, "param", t)]
      [] path = "filter.type" -> [s EXCEPT !.graph.filterType = valueToSet.tag]
      [] path = "vco1.type" -> [s EXCEPT !.graph.vco1Type = valueToSet.tag]
      [] path = "vco1.octave" -> octaveUpdate(s, "vco1", t)
      [] path = "vco2.octave" -> octaveUpdate(s, "vco2", t)
      [] OTHER -> s

updateParameter(s, path, newValue, forceUpdate, t) ==
    LET s1 == [s EXCEPT !.controls = setControl(@, path, newValue),
                        !.params = storeParam(@, path, actualAudioValue(path, newValue))]
    IN  IF s.isAudioInitialized /\ (s.isAudioResumed \/ forceUpdate) /\ s.audioContext
           /\ s.nodes
        THEN updateNode(s1, path, actualAudioValue(path, newValue), t)
        ELSE s1

\* updateAllKnobs, updateAllSwitches: every control's own value is routed
\* again (a knob's dataset.value, written with five decimals, reads back as
\* the same whole number of milliseconds or decihertz)
knobOrder == << "vco1.octave", "vco1.type", "vco2.octave", "portamentoTime",
                "filter.frequency.value",
                "vcfEnv.attack", "vcfEnv.decay", "vcfEnv.sustain", "vcfEnv.release",
                "vcaEnv.attack", "vcaEnv.decay", "vcaEnv.sustain", "vcaEnv.release" >>
switchOrder == << "filter.type", "keyFollow", "legato" >>

RECURSIVE updateEach(_, _, _, _)
updateEach(s, paths, forceUpdate, t) ==
    IF paths = << >> THEN s
    ELSE LET path == Head(paths)
             value == IF path \in Knobs THEN s.controls.value[path] ELSE s.controls.state[path]
         IN  updateEach(updateParameter(s, path, value, forceUpdate, t), Tail(paths),
                        forceUpdate, t)

updateAllKnobs(s, forceUpdate, t) == updateEach(s, knobOrder, forceUpdate, t)

updateAllSwitches(s, forceUpdate, t) == updateEach(s, switchOrder, forceUpdate, t)

updateAll(s, forceUpdate, t) == updateAllSwitches(updateAllKnobs(s, forceUpdate, t), forceUpdate, t)

\* ----- EVENT LISTENERS -----
\* keydown listener, steps 1-3: the events that are not note presses
keydownIgnored_ModifierPlays(pk, code, repeat, modifier) ==
    code \notin NoteCodes \/ isHeld(pk, code) \/ repeat

keydownIgnored(pk, code, repeat, modifier) ==
    modifier \/ code \notin NoteCodes \/ isHeld(pk, code) \/ repeat

keydownPlay_NoMark(s, code, t) ==
    noteOn(s, NoteOfCode(code), midiToFreq(NoteOfCode(code)), t)

\* keydown listener, step 5: the context is ready, the note press is processed
keydownPlay(s, code, t) ==
    noteOn([s EXCEPT !.pressedKeys = setKey(@, code, TRUE)],
           NoteOfCode(code), midiToFreq(NoteOfCode(code)), t)

\* the branch noteOn takes for a press that reaches it
playBranch(s) ==
    IF ~noteOnReady(s) THEN "inert" ELSE IF s.currentNote = null THEN "first" ELSE "transition"

\* keyup listener: the note release
keyupRelease(s, code, t) ==
    noteOff([s EXCEPT !.pressedKeys = setKey(@, code, FALSE)], NoteOfCode(code), t)

releaseBranch(s, code) ==
    IF ~noteOffReady(s) THEN "inert"
    ELSE IF NoteOfCode(code) # s.currentNote THEN "other"
    ELSE IF remainingHeldCodes(setKey(s.pressedKeys, code, FALSE)) # {} THEN "fallback"
    ELSE "last"

blur_KeepsFrequency(s, t) ==
    LET s1 == IF s.currentNote # null
              THEN [(IF (IF s.audioContext THEN t ELSE 0) > 0
                     THEN releaseEnvelopes(s, s.currentNote, t) ELSE s)
                    EXCEPT !.currentNote = null]
              ELSE s
    IN  [s1 EXCEPT !.pressedKeys = noKeys]

\* window blur listener
blur(s, t) ==
    LET s1 == IF s.currentNote # null
              THEN [(IF (IF s.audioContext THEN t ELSE 0) > 0
                     THEN releaseEnvelopes(s, s.currentNote, t) ELSE s)
                    EXCEPT !.currentNote = null, !.currentFrequency = 0]
              ELSE s
    IN  [s1 EXCEPT !.pressedKeys = noKeys]

\* the handlers awaiting resume() continue, oldest first, once the context
\* runs: a keydown listener marks its key and plays its note
continueAll_Dropped(s, waiting, t) == s

RECURSIVE continueAll(_, _, _)
continueAll(s, waiting, t) ==
    IF waiting = << >> THEN s
    ELSE continueAll(IF Head(waiting) \in NoteCodes THEN keydownPlay(s, Head(waiting), t) ELSE s,
                     Tail(waiting), t)

\* the DOMContentLoaded listener, for a document declaring the panel html
DOMContentLoadedOf(html, outcome) ==
    /\ UNCHANGED << proc, calc, keyboard >>
    /\ ~loaded
    /\ LET s1 == updateAll([Cur EXCEPT !.controls = html], FALSE, now)
       IN  Commit(initAudio(s1, outcome))
    /\ loaded' = TRUE
    /\ UNCHANGED ev
    /\ UNCHANGED << now, pending >>

DOMContentLoaded ==
    \E legato \in {"up", "down"}, keyFollow \in {"up", "down"}, porta \in PortamentoValues,
       cutoff \in FilterValues, outcome \in {"fail", "suspended", "running"} :
       DOMContentLoadedOf([controls EXCEPT !.state["legato"] = legato,
                                           !.state["keyFollow"] = keyFollow,
                                           !.value["portamentoTime"] = porta,
                                           !.value["filter.frequency.value"] = cutoff],
                          outcome)

keydownListener(code, repeat, modifier) ==
    /\ UNCHANGED << proc, calc >>
    /\ loaded
    /\ IF keydownIgnored(pressedKeys, code, repeat, modifier)
       THEN UNCHANGED << engine, pending, ev >>
       ELSE IF isAudioResumed
       THEN /\ Commit(keydownPlay(Cur, code, now))
            /\ ev' = Ev("keydown", playBranch(Cur))
            /\ UNCHANGED pending
       ELSE IF ~isAudioInitialized
       THEN /\ ev' = Ev("keydown", "rejected")
            /\ UNCHANGED << engine, pending >>
       ELSE IF ensureSyncResult(Cur) = "true"
       THEN /\ Commit(keydownPlay(ensureSyncState(Cur), code, now))
            /\ ev' = Ev("keydown", playBranch(Cur))
            /\ UNCHANGED pending
       ELSE IF ensureSyncResult(Cur) = "await"
       THEN /\ Len(pending) < MaxPending
            /\ pending' = Append(pending, code)
            /\ ev' = Ev("keydown", "awaiting")
            /\ UNCHANGED engine
       ELSE /\ Commit(ensureSyncState(Cur))
            /\ ev' = Ev("keydown", "rejected")
            /\ UNCHANGED pending
    /\ UNCHANGED << loaded, now >>

KeyDownOf(code, repeat, modifier) ==
    keydownListener(code, repeat, modifier) /\ UNCHANGED keyboard

KeyDown == \E code \in Codes, flags \in {<< FALSE, FALSE >>, << TRUE, FALSE >>, << FALSE, TRUE >>} :
               KeyDownOf(code, flags[1], flags[2])

keyupListener(code) ==
    /\ UNCHANGED << proc, calc >>
    /\ loaded
    /\ IF code \in NoteCodes /\ isHeld(pressedKeys, code)
       THEN /\ Commit(keyupRelease(Cur, code, now))
            /\ ev' = Ev("keyup", releaseBranch(Cur, code))
       ELSE UNCHANGED << engine, ev >>
    /\ UNCHANGED << loaded, now, pending >>

KeyUpOf(code) == keyupListener(code) /\ UNCHANGED keyboard

KeyUp == \E code \in Codes : KeyUpOf(code)

Blur ==
    /\ UNCHANGED << proc, calc, keyboard >>
    /\ loaded
    /\ Commit(blur(Cur, now))
    /\ ev' = Ev("blur", IF currentNote # null THEN "sounding" ELSE "silent")
    /\ UNCHANGED << loaded, now, pending >>

\* `if (!isAudioResumed && isAudioInitialized) ensureAudioContextResumed()`, not awaited
resumeOnInteraction(s) ==
    IF ~s.isAudioResumed /\ s.isAudioInitialized THEN ensureSyncState(s) ELSE s

interactionAwaits(s) ==
    ~s.isAudioResumed /\ s.isAudioInitialized /\ ensureSyncResult(s) = "await"

\* a click on the synth panel or a mousedown on a knob
PanelClick ==
    /\ UNCHANGED << proc, calc, keyboard >>
    /\ loaded
    /\ interactionAwaits(Cur) => Len(pending) < MaxPending
    /\ pending' = IF interactionAwaits(Cur) THEN Append(pending, "ui") ELSE pending
    /\ Commit(resumeOnInteraction(Cur))
    /\ UNCHANGED << loaded, now, ev >>

\* a click on a switch: the resume attempt, then the toggled state is routed
SwitchClickOf(path) ==
    /\ UNCHANGED << proc, calc, keyboard >>
    /\ loaded
    /\ interactionAwaits(Cur) => Len(pending) < MaxPending
    /\ pending' = IF interactionAwaits(Cur) THEN Append(pending, "ui") ELSE pending
    /\ LET newState == IF controls.state[path] = "up" THEN "down" ELSE "up"
       IN  /\ Commit(updateParameter(resumeOnInteraction(Cur), path, newState, FALSE, now))
           /\ UNCHANGED ev
    /\ UNCHANGED << loaded, now >>

SwitchClick == \E path \in {"legato", "keyFollow"} : SwitchClickOf(path)

\* a knob moved by drag, arrow key or double click: no resume attempt
KnobChangeOf(path, value) ==
    /\ UNCHANGED << proc, calc, keyboard >>
    /\ loaded
    /\ Commit(updateParameter(Cur, path, value, FALSE, now))
    /\ UNCHANGED ev
    /\ UNCHANGED << loaded, now, pending >>

KnobChange ==
    \E path \in {"portamentoTime", "filter.frequency.value"} :
       \E value \in (IF path = "portamentoTime" THEN PortamentoValues ELSE FilterValues) :
          KnobChangeOf(path, value)

PowerClick ==
    /\ UNCHANGED << proc, calc, keyboard >>
    /\ loaded
    /\ IF ~isAudioInitialized
       THEN \E outcome \in {"fail", "suspended", "running"} :
               LET s1 == updateAll(initAudio(Cur, outcome), TRUE, now)
                   awaiting == s1.audioContext /\ s1.acState = "suspended"
               IN  /\ awaiting => Len(pending) < MaxPending
                   /\ pending' = IF awaiting THEN Append(pending, "ui") ELSE pending
                   /\ Commit(s1)
                   /\ UNCHANGED ev
       ELSE /\ ensureSyncResult(Cur) = "await" => Len(pending) < MaxPending
            /\ pending' = IF ensureSyncResult(Cur) = "await"
                          THEN Append(pending, "ui") ELSE pending
            /\ Commit(ensureSyncState(Cur))
            /\ UNCHANGED ev
    /\ UNCHANGED << loaded, now >>

\* The host starts the context: by itself when it is allowed to, or because of
\* a resume().  Every pending resume() promise is resolved in the same task, so
\* every awaiting ensureAudioContextResumed and then every awaiting handler
\* continues before the next event is dispatched.
ContextStarts ==
    /\ UNCHANGED << proc, calc, keyboard >>
    /\ audioContext
    /\ acState = "suspended"
    /\ LET s1 == [Cur EXCEPT !.acState = "running"]
           s2 == IF pending = << >> THEN s1 ELSE ensureSettled(s1, TRUE)
       IN  Commit(continueAll(s2, pending, now))
    /\ pending' = << >>
    /\ ev' = IF \E i \in 1..Len(pending) : pending[i] \in NoteCodes
             THEN Ev("started", "played") ELSE ev
    /\ UNCHANGED << loaded, now >>

\* a resume() of a context that stays suspended settles without success: the
\* awaiting handler gives up
ResumeFails ==
    /\ UNCHANGED << proc, calc, keyboard >>
    /\ pending # << >>
    /\ acState = "suspended"
    /\ Commit(ensureSettled(Cur, FALSE))
    /\ pending' = Tail(pending)
    /\ ev' = IF Head(pending) \in NoteCodes THEN Ev("resumeFailed", "rejected") ELSE ev
    /\ UNCHANGED << loaded, now >>

\* the audio clock advances while the context runs
Tick ==
    /\ UNCHANGED << proc, calc, keyboard >>
    /\ audioContext
    /\ acState = "running"
    /\ now < MaxTicks * TickMs
    /\ now' = now + TickMs
    /\ automation' = [x \in Targets |-> forget(automation[x], now + TickMs)]
    /\ UNCHANGED << ev, loaded, audioContext, acState, nodes, isAudioInitialized,
                    isAudioResumed, params, pressedKeys, currentNote, currentFrequency,
                    intrinsic, controls, graph, warnings, pending >>

\* no call of calculateVcoFrequency observed yet
noCalc ==
    [done |-> FALSE, baseFreq |-> 0, octave |-> Num(2),
     result |-> [freq |-> 0, octave |-> Num(2), warned |-> FALSE, fatal |-> FALSE]]

\* no key is down and no key-down has been ignored
idleKeyboard == [down |-> {}, ignored |-> "none"]

\* the page before DOMContentLoaded
beforeLoad ==
    /\ keyboard = idleKeyboard
    /\ loaded = FALSE
    /\ audioContext = FALSE
    /\ acState = "none"
    /\ nodes = FALSE
    /\ isAudioInitialized = FALSE
    /\ isAudioResumed = FALSE
    /\ params = defaultParams
    /\ pressedKeys = noKeys
    /\ currentNote = null
    /\ currentFrequency = 0
    /\ intrinsic = [x \in Targets |-> 0]
    /\ automation = [x \in Targets |-> << >>]
    /\ controls = defaultControls
    /\ graph = noGraph
    /\ warnings = 0
    /\ proc = newProcessor
    /\ now = 0
    /\ pending = << >>
    /\ ev = Ev("init", "")

Init == beforeLoad /\ calc = noCalc

Next ==
    \/ DOMContentLoaded
    \/ KeyDown
    \/ KeyUp
    \/ Blur
    \/ PanelClick
    \/ SwitchClick
    \/ KnobChange
    \/ PowerClick
    \/ ContextStarts
    \/ ResumeFails
    \/ Tick

Spec == Init /\ [][Next]_vars

\* ----- the panel: every control, one note key -----
\* what a knob is asked for: a double click routes the knob's data-default
\* as the document gives it, a drag or an arrow key a value inside the range
KnobRequests(path) ==
    CASE path = "filter.frequency.value" -> {100, 5000, 300000}
      [] path = "vco1.octave" -> {-1, 3}
      [] path = "vco1.type" -> {0, 4}
      [] OTHER -> {}

PanelSwitches == {"filter.type"}

PageLoads ==
    \E outcome \in {"fail", "suspended", "running"} : DOMContentLoadedOf(controls, outcome)

KnobRequest == \E path \in Knobs : \E value \in KnobRequests(path) : KnobChangeOf(path, value)

SwitchToggle == \E path \in PanelSwitches : SwitchClickOf(path)

NoteKeyDown == KeyDownOf("KeyA", FALSE, FALSE)

NoteKeyUp == KeyUpOf("KeyA")

NextPanel ==
    \/ PageLoads
    \/ KnobRequest
    \/ SwitchToggle
    \/ NoteKeyDown
    \/ NoteKeyUp
    \/ PowerClick
    \/ ContextStarts
    \/ ResumeFails

SpecPanel == Init /\ [][NextPanel]_vars

\* ----- the pitch computation on any stored octave -----
\* the octaves the pitch computation is given: every index and the values
\* next to and away from the ends of the list
OctaveInputs == {-2, -1, 0, 1, 2, 3, 4, 5, 7}

PitchCodes == {"KeyA", "KeyS"}

\* the engine built and running, the two octave parameters holding o1 and o2
InitPitch ==
    \E o1 \in OctaveInputs, o2 \in OctaveInputs :
       LET s == initAudio([ audioContext |-> FALSE, acState |-> "none", nodes |-> FALSE,
                            isAudioInitialized |-> FALSE, isAudioResumed |-> FALSE,
                            params |-> [defaultParams EXCEPT !.vco1.octave = o1,
                                                             !.vco2.octave = o2],
                            pressedKeys |-> noKeys, currentNote |-> null,
                            currentFrequency |-> 0,
                            intrinsic |-> [x \in Targets |-> 0],
                            automation |-> [x \in Targets |-> << >>],
                            controls |-> defaultControls, graph |-> noGraph,
                            warnings |-> 0 ], "running")
       IN  /\ audioContext = s.audioContext
           /\ acState = s.acState
           /\ nodes = s.nodes
           /\ isAudioInitialized = s.isAudioInitialized
           /\ isAudioResumed = s.isAudioResumed
           /\ params = s.params
           /\ pressedKeys = s.pressedKeys
           /\ currentNote = s.currentNote
           /\ currentFrequency = s.currentFrequency
           /\ intrinsic = s.intrinsic
           /\ automation = s.automation
           /\ controls = s.controls
           /\ graph = s.graph
           /\ warnings = s.warnings
           /\ loaded = TRUE
           /\ proc = newProcessor
           /\ calc = noCalc
           /\ keyboard = idleKeyboard
           /\ now = 0
           /\ pending = << >>
           /\ ev = Ev("init", "")

PitchKeyDown == \E code \in PitchCodes : KeyDownOf(code, FALSE, FALSE)

PitchKeyUp == \E code \in PitchCodes : KeyUpOf(code)

NextPitch == PitchKeyDown \/ PitchKeyUp \/ Tick

SpecPitch == InitPitch /\ [][NextPitch]_vars

\* ----- the envelopes on any setting -----
\* the cutoff-knob values (decihertz; one below 20 Hz), envelope depths,
\* sustain levels and stage times (one of them zero) the envelopes are given
CutoffInputs == {100, 200000}
DepthInputs == {-40000, 40000}
SustainInputs == {0, 8000}
AttackInputs == {0, 10}
DecayInputs == {0, 100}
ReleaseInputs == {0, 200}

\* a note below and a note above the key-follow reference note
EnvCodes == {"KeyA", "KeyK"}

\* the engine is built and running, holding the parameters p and a panel c
runningWith(p, c) ==
    LET s == initAudio([ audioContext |-> FALSE, acState |-> "none", nodes |-> FALSE,
                         isAudioInitialized |-> FALSE, isAudioResumed |-> FALSE,
                         params |-> p, pressedKeys |-> noKeys, currentNote |-> null,
                         currentFrequency |-> 0,
                         intrinsic |-> [x \in Targets |-> 0],
                         automation |-> [x \in Targets |-> << >>],
                         controls |-> c, graph |-> noGraph, warnings |-> 0 ], "running")
    IN  /\ audioContext = s.audioContext
        /\ acState = s.acState
        /\ nodes = s.nodes
        /\ isAudioInitialized = s.isAudioInitialized
        /\ isAudioResumed = s.isAudioResumed
        /\ params = s.params
        /\ pressedKeys = s.pressedKeys
        /\ currentNote = s.currentNote
        /\ currentFrequency = s.currentFrequency
        /\ intrinsic = s.intrinsic
        /\ automation = s.automation
        /\ controls = s.controls
        /\ graph = s.graph
        /\ warnings = s.warnings
        /\ loaded = TRUE
        /\ proc = newProcessor
        /\ calc = noCalc
        /\ keyboard = idleKeyboard
        /\ now = 0
        /\ pending = << >>
        /\ ev = Ev("init", "")

\* the panel showing the parameters p
controlsOf(p) ==
    [ value |-> [k \in Knobs |->
                   CASE k = "portamentoTime" -> p.portamentoTime
                     [] k = "filter.frequency.value" -> p.filter.frequency
                     [] k \in DOMAIN envelopeKnobs ->
                           p[envelopeKnobs[k].env][envelopeKnobs[k].stage]
                     [] OTHER -> defaultControls.value[k]],
      state |-> [w \in Switches |->
                   CASE w = "legato" -> (IF p.legato = 1 THEN "up" ELSE "down")
                     [] w = "keyFollow" -> (IF p.keyFollow = 1 THEN "up" ELSE "down")
                     [] OTHER -> defaultControls.state[w]] ]

InitEnv ==
    \E cutoff \in CutoffInputs, depth \in DepthInputs, sustain \in SustainInputs,
       attack \in AttackInputs, decay \in DecayInputs, release \in ReleaseInputs,
       keyFollow \in {0, 1} :
       LET env == [attack |-> attack, decay |-> decay, sustain |-> sustain,
                   release |-> release]
           p == [defaultParams EXCEPT !.filter.frequency = cutoff,
                                      !.vcfEnvGain.gain = depth,
                                      !.keyFollow = keyFollow,
                                      !.vcfEnv = env, !.vcaEnv = env]
       IN  runningWith(p, controlsOf(p))

EnvKeyDown == \E code \in EnvCodes : KeyDownOf(code, FALSE, FALSE)

EnvKeyUp == \E code \in EnvCodes : KeyUpOf(code)

NextEnv == EnvKeyDown \/ EnvKeyUp \/ Blur \/ Tick

SpecEnv == InitEnv /\ [][NextEnv]_vars

\* ----- the glide on any portamento time -----
\* portamento times (ms) at, next to and away from the 5 ms threshold
PortamentoInputs == {0, 4, 5, 8, 200}

GlideCodes == {"KeyA", "KeyS"}

InitGlide ==
    \E portamento \in PortamentoInputs, legato \in {0, 1} :
       LET p == [defaultParams EXCEPT !.portamentoTime = portamento, !.legato = legato]
       IN  runningWith(p, controlsOf(p))

GlideKeyDown == \E code \in GlideCodes : KeyDownOf(code, FALSE, FALSE)

GlideKeyUp == \E code \in GlideCodes : KeyUpOf(code)

NextGlide == GlideKeyDown \/ GlideKeyUp \/ Tick

SpecGlide == InitGlide /\ [][NextGlide]_vars

\* ----- the computation-only parameters, one note key -----
\* what the knobs of the computation-only parameters are asked for
EnvKnobRequests(path) ==
    CASE path = "vcfEnv.attack" -> {0, 10}
      [] path = "vcfEnv.sustain" -> {0, 8000}
      [] path = "vcaEnv.decay" -> {0, 100}
      [] path = "vcaEnv.release" -> {0, 200}
      [] path = "portamentoTime" -> {0, 200}
      [] OTHER -> {}

InitComputed == runningWith(defaultParams, defaultControls)

EnvKnobChange ==
    \E path \in DOMAIN envelopeKnobs \cup {"portamentoTime"} :
       \E value \in EnvKnobRequests(path) : KnobChangeOf(path, value)

NextComputed == NoteKeyDown \/ NoteKeyUp \/ EnvKnobChange \/ SwitchClick \/ Tick

SpecComputed == InitComputed /\ [][NextComputed]_vars

\* ----- the held-value generator on the audio rendering thread -----
\* the host calls process() for one render quantum, with the block's frequency
Process ==
    /\ proc.frames < MaxBlocks * BlockLen
    /\ \E frequency \in LfoFrequencies, randoms \in [1..BlockLen -> RandomValues] :
          proc' = process(proc, frequency, randoms)
    /\ UNCHANGED << loaded, engine, now, pending, ev, calc, keyboard >>

NextLfo == Process

SpecLfo == Init /\ [][NextLfo]_vars

\* ----- the keyboard: keys go down, repeat and come up -----
\* two note keys and a key that plays no note
KeyboardCodes == {"KeyA", "KeyS", "KeyZ"}

\* the return the keydown listener takes for an event it ignores, in the
\* order of its tests
ignoredBecause(pk, code, repeat, modifier) ==
    IF modifier THEN "modifier"
    ELSE IF code \notin NoteCodes THEN "notNote"
    ELSE IF isHeld(pk, code) THEN "held"
    ELSE IF repeat THEN "repeat"
    ELSE "none"

KeysPageLoad ==
    \E outcome \in {"fail", "suspended", "running"} : DOMContentLoadedOf(defaultControls, outcome)

\* a key that is up goes down, with or without meta/ctrl/alt held
KeyPress ==
    \E code \in KeyboardCodes \ keyboard.down, modifier \in BOOLEAN :
       /\ keydownListener(code, FALSE, modifier)
       /\ keyboard' = [down |-> keyboard.down \cup {code},
                       ignored |-> ignoredBecause(pressedKeys, code, FALSE, modifier)]

\* a key that is down auto-repeats
KeyRepeat ==
    \E code \in keyboard.down :
       /\ keydownListener(code, TRUE, FALSE)
       /\ keyboard' = [keyboard EXCEPT !.ignored = ignoredBecause(pressedKeys, code, TRUE, FALSE)]

\* a key that is down comes up and its key-up is delivered
KeyRelease ==
    \E code \in keyboard.down :
       /\ keyupListener(code)
       /\ keyboard' = [keyboard EXCEPT !.down = @ \ {code}]

NextKeys ==
    \/ KeysPageLoad
    \/ KeyPress
    \/ KeyRepeat
    \/ KeyRelease
    \/ Blur
    \/ ContextStarts
    \/ ResumeFails
    \/ Tick

SpecKeys == Init /\ [][NextKeys]_vars

\* ----- the pitch of one oscillator, for any base frequency and stored octave -----
\* the thirteen notes of the keyboard, and frequencies the clamp acts on
CalcBaseFreqs == {midiToFreq(n) : n \in 60..72} \cup {0, 100, 300000}

\* valid indices, numbers out of range, numbers that are not integers, and
\* values that are not numbers
CalcOctaves ==
    {Num(n) : n \in -1..5} \cup {Frac(n) : n \in -1..5} \cup {NaN, Str("8"), Str("")}

InitCalc ==
    /\ beforeLoad
    /\ \E baseFreq \in CalcBaseFreqs, octave \in CalcOctaves :
          calc = [noCalc EXCEPT !.baseFreq = baseFreq, !.octave = octave]

Calculate ==
    /\ ~calc.done
    /\ calc' = [calc EXCEPT !.done = TRUE,
                            !.result = calculateVcoFrequencyOfValue(calc.baseFreq, calc.octave)]
    /\ UNCHANGED << loaded, engine, now, pending, ev, proc, keyboard >>

NextCalc == Calculate

SpecCalc == InitCalc /\ [][NextCalc]_vars

\* ----- PROPERTIES: the monophonic voice (C1 - C10) -----
\* what an observer of one AudioParam sees right after an envelope trigger at
\* time t: a set at t, then the attack ramp, then the decay ramp, nothing else
isTriggerAt(tl, t) ==
    /\ Len(tl) = 3
    /\ tl[1].k = "set" /\ tl[1].t = t
    /\ tl[2].k = "ramp" /\ tl[2].t > t
    /\ tl[3].k = "ramp" /\ tl[3].t > tl[2].t
    /\ \A i \in 1..3 : tl[i].by = "trigger" /\ tl[i].at = t

\* ... and right after an envelope release at time t: a hold at t, then one ramp
isReleaseAt(tl, t) ==
    /\ Len(tl) = 2
    /\ tl[1].k = "set" /\ tl[1].t = t
    /\ tl[2].k = "ramp" /\ tl[2].t > t
    /\ \A i \in 1..2 : tl[i].by = "release" /\ tl[i].at = t

\* ... and right after an immediate pitch set to f at time t
isJumpAt(tl, t, f) ==
    Len(tl) = 1 /\ tl[1].k = "set" /\ tl[1].t = t /\ tl[1].v = f /\ tl[1].by = "pitch"

bothTriggeredFor(note) ==
    /\ isTriggerAt(automation'.filter, now)
    /\ isTriggerAt(automation'.vca, now)
    /\ automation'.filter[1].v = clampFreq(baseFreqWithKeyFollow(params, note))
    /\ automation'.vca[1].v = GateEpsilon

envelopesUntouched == automation'.filter = automation.filter /\ automation'.vca = automation.vca

heldNotes(pk) == {NoteOfCode(c) : c \in (pk \cap NoteCodes)}

\* the note presses among the handlers awaiting the resume, oldest first
pendingNotes == SelectSeq(pending, LAMBDA c : c \in NoteCodes)

\* a press of code that the keydown listener does not ignore
pressOf(code) == ~keydownIgnored(pressedKeys, code, FALSE, FALSE) /\ KeyDownOf(code, FALSE, FALSE)

\* a release of code, code being marked held
releaseOf(code) == code \in NoteCodes /\ code \in pressedKeys /\ KeyUpOf(code)

\* the step in which the suspended context starts running
contextStarted == acState = "suspended" /\ acState' = "running" /\ ContextStarts

\* the step in which the oldest awaiting resume attempt fails
resumeFailed == pending # << >> /\ pending' = Tail(pending) /\ acState' = "suspended" /\ ResumeFails

\* C1: in every reachable state, currentNote is non-null exactly when at least
\* one note key is marked held in pressedKeys.
C1_SoundingIffHeld == (currentNote # null) <=> (heldNotes(pressedKeys) # {})

\* a key was released while another stayed held, and a note still sounds
C1_Witness == ev = Ev("keyup", "other") /\ currentNote # null /\ Cardinality(pressedKeys) = 1

\* C2: an accepted key-down while a note sounds triggers both envelopes (for
\* the new note) when legato is off (params.legato < 0.5), and leaves both
\* envelopes' automation exactly as it was when legato is on.  The same holds
\* for the presses that were awaiting the resume and are processed together
\* when the context starts: the second and later ones find a note sounding.
C2_LegatoDecidesRetrigger ==
    [][ /\ \A code \in Codes :
              currentNote # null /\ code \in pressedKeys' /\ pressOf(code) =>
                  IF 2 * params.legato < 1
                  THEN bothTriggeredFor(NoteOfCode(code))
                  ELSE envelopesUntouched
        /\ Len(pendingNotes) >= 2 /\ contextStarted =>
              bothTriggeredFor(NoteOfCode(IF 2 * params.legato < 1
                                          THEN pendingNotes[Len(pendingNotes)]
                                          ELSE pendingNotes[1])) ]_vars

\* a second key went down while a note sounded, legato being on, and a
\* moment after the first note's envelopes were triggered
C2_Witness ==
    /\ ev = Ev("keydown", "transition") /\ params.legato = 1
    /\ Cardinality(pressedKeys) = 2 /\ now > 0
    /\ isTriggerAt(automation.filter, 0)

\* C3: a key-up of the sounding note while other note keys stay held neither
\* triggers nor releases an envelope, whatever the legato setting.
C3_FallbackLeavesEnvelopes ==
    [][ \A code \in Codes :
            code \in NoteCodes /\ NoteOfCode(code) = currentNote
            /\ heldNotes(pressedKeys \ {code}) # {} /\ releaseOf(code) => envelopesUntouched ]_vars

\* the sounding note's key went up with another key held, legato being off
C3_Witness ==
    /\ ev = Ev("keyup", "fallback") /\ params.legato = 0
    /\ automation.filter # << >> /\ pressedKeys # {}

\* C4: right after a key-up of the sounding note while other note keys stay
\* held, currentNote is the highest note among the keys still held and
\* currentFrequency is that note's frequency.
C4_FallbackToHighestHeld ==
    [][ \A code \in Codes :
            code \in NoteCodes /\ NoteOfCode(code) = currentNote
            /\ heldNotes(pressedKeys \ {code}) # {} /\ releaseOf(code) =>
                /\ currentNote' \in heldNotes(pressedKeys')
                /\ \A n \in heldNotes(pressedKeys') : n <= currentNote'
                /\ currentFrequency' = midiToFreq(currentNote') ]_vars

\* the lowest key was pressed last and released first: the voice fell back to
\* the higher of the two keys that remain
C4_Witness ==
    /\ ev = Ev("keyup", "fallback")
    /\ Cardinality(heldNotes(pressedKeys)) = 2
    /\ currentNote = 62 /\ currentFrequency = 2937

\* C5: a key-up of the sounding note with no other note key held always
\* starts the release on both envelopes, the filter's release aiming at the
\* resting cutoff of the note that was sounding, and leaves currentNote null.
C5_LastKeyUpReleases ==
    [][ \A code \in Codes :
            code \in NoteCodes /\ NoteOfCode(code) = currentNote
            /\ heldNotes(pressedKeys \ {code}) = {} /\ releaseOf(code) =>
                /\ currentNote' = null
                /\ isReleaseAt(automation'.filter, now)
                /\ isReleaseAt(automation'.vca, now)
                /\ automation'.filter[2].v = clampFreq(baseFreqWithKeyFollow(params, currentNote))
                /\ automation'.vca[2].v = GateEpsilon ]_vars

\* the last held key went up, the cutoff following the keyboard
C5_Witness ==
    /\ ev = Ev("keyup", "last") /\ params.keyFollow = 1
    /\ currentNote = null /\ isReleaseAt(automation.vca, now)

\* C6: an accepted key-down while no note sounds sets both oscillator pitches
\* with an immediate set, never a glide, even when portamento is on, and
\* triggers both envelopes even when legato is on.  The same holds for a press
\* that was awaiting the resume and is processed when the context starts.
C6_FirstNoteJumpsAndTriggers ==
    [][ /\ \A code \in Codes :
              currentNote = null /\ code \in pressedKeys' /\ pressOf(code) =>
                  /\ isJumpAt(automation'.vco1, now,
                              calculateVcoFrequency(midiToFreq(NoteOfCode(code)), params.vco1.octave).freq)
                  /\ isJumpAt(automation'.vco2, now,
                              calculateVcoFrequency(midiToFreq(NoteOfCode(code)), params.vco2.octave).freq)
                  /\ bothTriggeredFor(NoteOfCode(code))
        /\ Len(pendingNotes) = 1 /\ contextStarted =>
              /\ isJumpAt(automation'.vco1, now,
                          calculateVcoFrequency(midiToFreq(NoteOfCode(pendingNotes[1])),
                                                params.vco1.octave).freq)
              /\ bothTriggeredFor(NoteOfCode(pendingNotes[1])) ]_vars

\* a first note was played with portamento and legato both on
C6_Witness ==
    /\ ev = Ev("keydown", "first") /\ params.portamentoTime > PortamentoThresholdMs
    /\ params.legato = 1 /\ currentNote # null /\ Cardinality(pressedKeys) = 1

\* C7: a key-up of a held note that is not the sounding note leaves
\* currentNote and currentFrequency as they were and schedules or cancels
\* nothing on the oscillator frequencies, the filter cutoff or the gate gain:
\* only that key's held flag changes.
C7_OtherKeyUpIsInert ==
    [][ \A code \in Codes :
            code \in pressedKeys /\ code \in NoteCodes /\ NoteOfCode(code) # currentNote
            /\ releaseOf(code) =>
                /\ pressedKeys' = pressedKeys \ {code}
                /\ UNCHANGED << currentNote, currentFrequency, automation, intrinsic, params,
                                isAudioResumed, isAudioInitialized, acState >> ]_vars

\* the highest of three held keys went up while the lowest one was sounding
C7_Witness ==
    /\ ev = Ev("keyup", "other") /\ currentNote = 60
    /\ heldNotes(pressedKeys) = {60, 61}

\* C8: a window blur in any state leaves currentNote null, currentFrequency 0
\* and pressedKeys empty, and when a note was sounding the release is started
\* on both envelopes.
C8_BlurReleasesAndResets ==
    [][ Blur =>
            /\ currentNote' = null /\ currentFrequency' = 0 /\ pressedKeys' = {}
            /\ currentNote # null =>
                  isReleaseAt(automation'.filter, now) /\ isReleaseAt(automation'.vca, now) ]_vars

envEvents(tl) == SelectSeq(tl, LAMBDA e : e.by \in {"trigger", "release"})

\* the time of the latest envelope trigger or release that left an event on tl
lastEnvelopeOpAt(tl) ==
    LET ats == {envEvents(tl)[i].at : i \in 1..Len(envEvents(tl))}
    IN  CHOOSE a \in ats : \A b \in ats : b <= a

\* C10: every envelope trigger or release on a target cancels the automation
\* points scheduled at or after the current time before it schedules its own:
\* of the envelope points a target holds at or after its latest trigger or
\* release, every one was scheduled by that operation, and they form a single
\* envelope (at most one starting point and two ramps).
C10_EnvelopeOpsCancelFirst ==
    \A x \in {"filter", "vca"} :
        envEvents(automation[x]) # << >> =>
            LET L     == lastEnvelopeOpAt(automation[x])
                ahead == SelectSeq(envEvents(automation[x]), LAMBDA e : e.t >= L)
            IN  /\ \A i \in 1..Len(ahead) : ahead[i].at = L
                /\ Len(SelectSeq(ahead, LAMBDA e : e.k = "set")) <= 1
                /\ Len(SelectSeq(ahead, LAMBDA e : e.k = "ramp")) <= 2

\* the gate was released in the middle of its attack: the release cancelled
\* the rest of the attack and the decay that the trigger had scheduled
C10_Witness ==
    /\ isReleaseAt(automation.vca, now) /\ now > 0
    /\ automation.vca[1].v > GateEpsilon /\ automation.vca[1].v < GatePeak

\* ----- PROPERTIES: the held-value generator (C17 - C19) -----
\* the frames of the latest refreshes: the last one before the latest block,
\* then the ones in the latest block
refreshSeq ==
    (IF proc.prevRefresh > 0 THEN << proc.prevRefresh >> ELSE << >>) \o proc.blockRefreshes

floorPeriod(f) == LfoSampleRate \div f

ceilPeriod(f) == (LfoSampleRate + f - 1) \div f

\* C17 as stated: with the frequency constant at f > 0 since construction,
\* any two consecutive refreshes are exactly ceil(sampleRate / f) frames apart.
C17_EveryCeilFrames ==
    proc.steady /\ proc.paramFrequency > 0 =>
        \A i \in 2..Len(refreshSeq) :
            refreshSeq[i] - refreshSeq[i - 1] = ceilPeriod(proc.paramFrequency)

\* C17, amended: with the frequency constant at f > 0 since construction, the
\* k-th refresh happens on frame ceil(k * sampleRate / f): each refresh keeps
\* the remainder of the phase, so that two consecutive refreshes are
\* floor(sampleRate / f) or ceil(sampleRate / f) frames apart and the period
\* is sampleRate / f on average.
C17_RefreshOnCeilOfMultiples ==
    proc.steady /\ proc.paramFrequency > 0 =>
        /\ \A i \in 1..Len(proc.blockRefreshes) :
              LET k == proc.refreshes - Len(proc.blockRefreshes) + i
                  r == proc.blockRefreshes[i]
              IN  (r - 1) * proc.paramFrequency < k * LfoSampleRate
                  /\ k * LfoSampleRate <= r * proc.paramFrequency
        /\ \A i \in 2..Len(refreshSeq) :
              refreshSeq[i] - refreshSeq[i - 1]
                  \in {floorPeriod(proc.paramFrequency), ceilPeriod(proc.paramFrequency)}

\* at 5 Hz the period is 1.6 frames: refreshes one frame apart and two frames
\* apart have both happened
C17_Witness ==
    /\ proc.steady /\ proc.paramFrequency = 5 /\ proc.refreshes >= 4
    /\ Len(refreshSeq) = 3
    /\ refreshSeq[2] - refreshSeq[1] = 2 /\ refreshSeq[3] - refreshSeq[2] = 1

\* C18: a block processed with the frequency parameter <= 0 performs no
\* refresh: the held value stays the last value drawn.
C18_FrozenAtOrBelowZero ==
    [][ Process /\ proc'.paramFrequency <= 0 =>
            /\ proc'.currentValue = proc.currentValue
            /\ proc'.refreshes = proc.refreshes
            /\ proc'.blockRefreshes = << >> ]_vars

\* a value was drawn, then the frequency has been <= 0 for two blocks or more
C18_Witness ==
    /\ proc.paramFrequency <= 0 /\ proc.refreshes > 0 /\ proc.currentValue # 0
    /\ proc.frames >= proc.changedAt + 2 * BlockLen

\* C19: after the frequency has changed between two refreshes (from one value
\* above zero to another), and once the first refresh under the new frequency
\* has happened, the refreshes follow the new period: consecutive refreshes
\* are floor(sampleRate / f) or ceil(sampleRate / f) frames apart.
C19_NewPeriodAfterChange ==
    proc.positive =>
        \A i \in 2..Len(refreshSeq) :
            refreshSeq[i - 1] > proc.changedAt =>
                refreshSeq[i] - refreshSeq[i - 1]
                    \in {floorPeriod(proc.paramFrequency), ceilPeriod(proc.paramFrequency)}

\* ----- the gate gain -----
\* the points of the gate-gain timeline the envelopes choose a value for: the
\* hold, peak and sustain of a trigger and the target of a release (the hold
\* of a release repeats the value the gain already has)
gateTargets ==
    {automation.vca[i].v : i \in {j \in 1..Len(automation.vca) :
        \/ automation.vca[j].by = "trigger"
        \/ automation.vca[j].by = "release" /\ automation.vca[j].k = "ramp"}}

\* C20: the gate-gain target is never exactly zero: once the gate exists, its
\* idle value before any trigger, the hold, peak and sustain of every trigger
\* and the target of every release are all at least epsilon
C20_GateNeverBelowEpsilon ==
    nodes => /\ intrinsic.vca >= GateEpsilon
             /\ \A v \in gateTargets : v >= GateEpsilon

\* ----- the parameter router -----
\* the knob path was routed with the request value in this step
knobSetTo(path, value) ==
    /\ loaded
    /\ controls'.value[path] = targetValue(path, value)
    /\ KnobChangeOf(path, value)

\* the last automation point of tl is an approach to f that starts at t
isRetuneAt(tl, t, f) ==
    /\ tl # << >>
    /\ LET e == tl[Len(tl)]
       IN  e.k = "target" /\ e.v = f /\ e.t = t /\ e.tc = 2 * ParamRampMs /\ e.by = "param"

\* C12: an octave change while a note sounds recomputes that oscillator's
\* pitch target from currentFrequency and the new octave and applies it in
\* the same update (an approach to it starting at the current time); when no
\* note sounds the oscillator's pitch automation is left as it is.  Checked
\* on the first oscillator's octave knob.
C12_OctaveChangeRetunes ==
    [][ \A value \in KnobRequests("vco1.octave") :
          knobSetTo("vco1.octave", value) =>
             IF currentNote # null
             THEN isRetuneAt(automation'.vco1, now,
                      calculateVcoFrequency(currentFrequency,
                                            stepIndexOf("vco1.octave", value)).freq)
             ELSE automation'.vco1 = automation.vco1 ]_vars

\* a note sounds and the octave knob of the first oscillator has just moved
\* it to another octave
C12_Witness ==
    /\ currentNote # null
    /\ params.vco1.octave = 3
    /\ isRetuneAt(automation.vco1, now, calculateVcoFrequency(currentFrequency, 3).freq)

\* C13: for any stored octave index outside 0..4 the pitch computation uses
\* index 2 (multiplier 1/2) and rewrites the stored octave to 2, and the note
\* is played all the same: a key-down that starts a note with such an octave
\* stored sets that oscillator to half the note's frequency (inside 20 Hz ..
\* nyquist), leaves 2 as the stored octave and makes the note the current one
C13_InvalidOctaveDefaultsToTwo ==
    [][ \A code \in PitchCodes : \A osc \in {"vco1", "vco2"} :
          params[osc].octave \notin 0..4 /\ pressOf(code) =>
             /\ params'[osc].octave = 2
             /\ isJumpAt(automation'[osc], now,
                         Max(MinFreq, Min(Nyquist, midiToFreq(NoteOfCode(code)) \div 2)))
             /\ currentNote' = NoteOfCode(code)
             /\ warnings' > warnings ]_vars

\* a note sounds, the computation has warned of an invalid index, and both
\* stored octaves are valid
C13_Witness ==
    /\ currentNote # null
    /\ warnings > 0
    /\ params.vco1.octave = 2
    /\ params.vco2.octave \in 0..4

SteppedKnobs == {path \in Knobs : knobSteps(path) # << >>}

ContinuousKnobs == Knobs \ SteppedKnobs

\* C14, as stated: setting a stepped parameter to index i leaves exactly
\* index i as the value stored for that path in the parameter mapping
C14_SteppedStoresIndex ==
    [][ \A path \in SteppedKnobs :
          \A i \in KnobRequests(path) \cap (0..(Len(knobSteps(path)) - 1)) :
             knobSetTo(path, i) => storedValue(params', path) = Num(i) ]_vars

\* C14, amended: setting a stepped parameter to index i (clamped to the step
\* list) leaves index i as the value of the control, and stores for the path
\* the value of step i: the number the step denotes for an octave knob, the
\* waveform name for a waveform selector
C14_SteppedStoresStepValue ==
    [][ \A path \in SteppedKnobs : \A value \in KnobRequests(path) :
          knobSetTo(path, value) =>
             LET i == IF value < 0 THEN 0
                      ELSE IF value > Len(knobSteps(path)) - 1 THEN Len(knobSteps(path)) - 1
                      ELSE value
             IN  /\ controls'.value[path] = i
                 /\ storedValue(params', path) =
                       (IF path = "vco1.type" THEN Str(vcoWaveforms[i + 1]) ELSE Num(i)) ]_vars

\* the waveform selector stands on its last step and the sine tag is stored
C14_Witness ==
    /\ loaded
    /\ controls.value["vco1.type"] = 3
    /\ params.vco1.type = "sine"

\* C15: a continuous parameter set to v inside [min, max] reads back v; set
\* outside the range it is stored clamped to the nearest bound
C15_ContinuousReadsBackClamped ==
    [][ \A path \in ContinuousKnobs : \A v \in KnobRequests(path) :
          knobSetTo(path, v) =>
             storedValue(params', path) =
                Num(IF v < knobMin(path) THEN knobMin(path)
                    ELSE IF v > knobMax(path) THEN knobMax(path) ELSE v) ]_vars

\* the cutoff knob was asked for less than its minimum and holds the minimum
C15_Witness ==
    /\ loaded
    /\ params.filter.frequency = knobMin("filter.frequency.value")
    /\ controls.value["filter.frequency.value"] = knobMin("filter.frequency.value")

\* ----- the signal graph -----
\* the positions of the log at which a node is created, a source is started
createdAt == {i \in 1..Len(graph.log) : graph.log[i].op = "create"}
startedAt == {i \in 1..Len(graph.log) : graph.log[i].op = "start"}

\* C16: the signal graph is constructed once per lifetime, never again (it
\* exists exactly when one construction has run), and within the
\* construction every node is created before any of the sources (the LFO,
\* the two oscillators, the noise source) is started
C16_GraphBuiltOnce ==
    /\ graph.constructions <= 1
    /\ nodes <=> graph.constructions = 1
    /\ isAudioInitialized => graph.constructions = 1
    /\ \A i \in createdAt : \A j \in startedAt : i < j
    /\ nodes => /\ {graph.log[j].node : j \in startedAt} = {"lfo", "vco1", "vco2", "noiseSource"}
                /\ \A j \in startedAt : \E i \in createdAt : graph.log[i].node = graph.log[j].node

\* the graph has been built, a resume attempt made after it is still
\* awaited with the context suspended, and the one construction stands
C16_Witness ==
    /\ graph.constructions = 1
    /\ Len(graph.log) = Len(createdNodes) + Len(startedSources)
    /\ isAudioInitialized /\ acState = "suspended"
    /\ pending # << >>

\* ----- deferred updates -----
engineReady == isAudioInitialized /\ isAudioResumed

\* the live attributes the router sets directly agree with params
liveInSync ==
    /\ graph.filterType = params.filter.type
    /\ graph.vco1Type = params.vco1.type

\* the switch path was toggled in this step
switchToggled(path) ==
    /\ loaded
    /\ controls'.state[path] # controls.state[path]
    /\ SwitchClickOf(path)

\* C11: a parameter change while the engine is not both initialized and
\* resumed (for a switch: after the click's own resume attempt) updates the
\* stored parameter and skips the live update; and in
\* the step in which the engine becomes ready, by whichever resume path,
\* every direct parameter's live control agrees with its stored value
\* again.  Checked on the filter-type switch and the waveform selector.
C11_DeferredThenResynced ==
    [][ /\ \A value \in KnobRequests("vco1.type") :
              ~engineReady /\ knobSetTo("vco1.type", value) =>
                 /\ params'.vco1.type = vcoWaveforms[targetValue("vco1.type", value) + 1]
                 /\ graph' = graph
        /\ ~engineReady' /\ switchToggled("filter.type") =>
              /\ params'.filter.type =
                    (IF controls'.state["filter.type"] = "up" THEN "lowpass" ELSE "bandpass")
              /\ graph' = graph
        /\ ~engineReady /\ engineReady' => liveInSync' ]_vars

\* ----- PROPERTIES: the envelopes on any setting (C21 - C23, C29) -----
\* the points of the cutoff timeline the envelopes choose a value for
filterTargets ==
    {automation.filter[i].v : i \in {j \in 1..Len(automation.filter) :
        \/ automation.filter[j].by = "trigger"
        \/ automation.filter[j].by = "release" /\ automation.filter[j].k = "ramp"}}

\* C21: every value the envelopes schedule on the filter cutoff (trigger
\* start, peak, sustain, release target) lies within [20 Hz, sampleRate/2],
\* for every cutoff-knob value, depth, sustain level, key-follow setting and
\* note
C21_CutoffWithinRange ==
    \A v \in filterTargets : MinFreq <= v /\ v <= Nyquist

\* a trigger whose peak was cut down to sampleRate/2
C21_Witness ==
    /\ params.filter.frequency + params.vcfEnvGain.gain > Nyquist
    /\ isTriggerAt(automation.filter, now)
    /\ automation.filter[2].v = Nyquist

\* the ramps a trigger or a release has scheduled on the timeline tl
envRamps(tl) == {i \in 1..Len(tl) : tl[i].k = "ramp" /\ tl[i].by \in {"trigger", "release"}}

\* C22: for every attack, decay and release setting, 0 included, no ramp of a
\* trigger or of a release has zero duration: each ramp ends at least 0.001 s
\* after the trigger or release that scheduled it, and a decay ramp at least
\* 0.001 s after the attack ramp of the same trigger
C22_NoZeroDurationRamp ==
    \A x \in {"filter", "vca"} : \A i \in envRamps(automation[x]) :
       LET tl == automation[x]
       IN  /\ tl[i].t >= tl[i].at + MinRampMs
           /\ (i - 1) \in envRamps(tl) /\ tl[i - 1].at = tl[i].at =>
                 tl[i].t >= tl[i - 1].t + MinRampMs

\* both envelopes were triggered with attack and decay at zero
C22_Witness ==
    /\ params.vcfEnv.attack = 0 /\ params.vcfEnv.decay = 0
    /\ isTriggerAt(automation.filter, now) /\ isTriggerAt(automation.vca, now)
    /\ automation.vca[3].t = now + 2 * MinRampMs

\* the last held key, sounding, goes up in this step
lastKeyUp(code) ==
    /\ code \in NoteCodes /\ NoteOfCode(code) = currentNote
    /\ heldNotes(pressedKeys \ {code}) = {}
    /\ releaseOf(code)

\* C23: a release on either envelope target starts its ramp from the value
\* the target has at the instant of the release, whatever stage it is in,
\* and ramps from there to the release target
C23_ReleaseFromCurrentValue ==
    [][ \A code \in EnvCodes : lastKeyUp(code) =>
          \A x \in {"filter", "vca"} :
             /\ isReleaseAt(automation'[x], now)
             /\ automation'[x][1].v = ValueAt(automation[x], intrinsic[x], now)
             /\ automation'[x][2].v =
                   (IF x = "vca" THEN GateEpsilon
                    ELSE clampFreq(baseFreqWithKeyFollow(params, currentNote))) ]_vars

\* the gate was released in the middle of its attack
C23_Witness ==
    /\ ev = Ev("keyup", "last")
    /\ isReleaseAt(automation.vca, now)
    /\ automation.vca[1].v > GateEpsilon
    /\ automation.vca[1].v < Max(GateEpsilon, params.vcaEnv.sustain)

\* the key-follow-adjusted base cutoff of a note
restingCutoff(note) ==
    LET knob   == params.filter.frequency
        offset == IF params.keyFollow = 1 THEN ((note - 69) * 2 * knob) \div 120 ELSE 0
    IN  Min(Nyquist, Max(MinFreq, Max(MinFreq, knob + offset)))

isGlideAt(tl, t, f, tc) ==
    /\ Len(tl) = 1
    /\ tl[1].k = "target" /\ tl[1].t = t /\ tl[1].v = f /\ tl[1].tc = tc
    /\ tl[1].by = "pitch"

\* both oscillators (both in the octave of multiplier 1/2) move to the pitch
\* of note in this step: by a glide when the portamento time is above 5 ms,
\* by an immediate set otherwise
bothMoveTo(note) ==
    LET f == Max(MinFreq, Min(Nyquist, midiToFreq(note) \div 2))
    IN  \A osc \in {"vco1", "vco2"} :
           IF params.portamentoTime > 5
           THEN isGlideAt(automation'[osc], now, f, params.portamentoTime \div 4)
           ELSE isJumpAt(automation'[osc], now, f)

\* C24: on every pitch change while a note is sounding (an accepted key-down,
\* or a key-up that falls back to another held note) both oscillators glide
\* exponentially to the new pitch with time constant portamentoTime / 4 if
\* portamentoTime > 0.005 s, and otherwise both jump to it with an immediate
\* set; the two oscillators use the same mode
C24_GlideOrJumpTogether ==
    [][ \A code \in GlideCodes :
          /\ currentNote # null /\ pressOf(code) => bothMoveTo(NoteOfCode(code))
          /\ NoteOfCode(code) = currentNote /\ heldNotes(pressedKeys \ {code}) # {}
             /\ releaseOf(code) =>
                \A n \in heldNotes(pressedKeys \ {code}) :
                   (\A m \in heldNotes(pressedKeys \ {code}) : m <= n) => bothMoveTo(n) ]_vars

\* a second key was pressed with the portamento time just above the
\* threshold, and both oscillators glide
C24_Witness ==
    /\ params.portamentoTime = 8
    /\ currentNote = 62 /\ Cardinality(heldNotes(pressedKeys)) = 2
    /\ \A osc \in {"vco1", "vco2"} : isGlideAt(automation[osc], now, 2937 \div 2, 2)

\* C27: every accepted key-down makes the pressed note the sounding note:
\* right afterwards currentNote is that note and currentFrequency its
\* frequency, whether the note is higher or lower than the one that sounded
\* and whether legato is on or off.  Of the presses that were awaiting the
\* resume and are processed together when the context starts, the last one
\* processed is the sounding note.
C27_PressedNoteSounds ==
    [][ /\ \A code \in Codes :
              code \notin pressedKeys /\ code \in pressedKeys' /\ pressOf(code) =>
                 /\ currentNote' = NoteOfCode(code)
                 /\ currentFrequency' = midiToFreq(NoteOfCode(code))
        /\ pendingNotes # << >> /\ contextStarted =>
              /\ currentNote' = NoteOfCode(pendingNotes[Len(pendingNotes)])
              /\ currentFrequency' = midiToFreq(NoteOfCode(pendingNotes[Len(pendingNotes)])) ]_vars

\* a lower key went down while a higher note sounded, legato being off, and
\* the lower note sounds
C27_Witness ==
    /\ ev = Ev("keydown", "transition") /\ params.legato = 0
    /\ currentNote = 60 /\ currentFrequency = 2616
    /\ 62 \in heldNotes(pressedKeys)

\* ----- PROPERTIES: the computation-only parameters (C25) -----
ComputedKnobs == DOMAIN envelopeKnobs \cup {"portamentoTime"}

ComputedSwitches == {"legato", "keyFollow"}

\* every path of params but path keeps its value in this step
othersKept(path) ==
    \A q \in (Knobs \cup Switches) \ {path} : storedValue(params', q) = storedValue(params, q)

\* no node attribute is written and no automation scheduled or cancelled
liveGraphUntouched == UNCHANGED << automation, intrinsic, graph >>

\* C25: changing a computation-only parameter (an envelope's attack, decay,
\* sustain or release, keyFollow, portamentoTime, legato) through the router
\* changes only that stored parameter: no live control is written and no
\* automation is scheduled or cancelled, so the ramps already scheduled stay
C25_ComputedOnlyStored ==
    [][ /\ \A path \in ComputedKnobs : \A value \in EnvKnobRequests(path) :
              knobSetTo(path, value) =>
                 /\ storedValue(params', path) = Num(value)
                 /\ othersKept(path)
                 /\ liveGraphUntouched
        /\ \A path \in ComputedSwitches :
              switchToggled(path) =>
                 /\ storedValue(params', path) = Num(1 - storedValue(params, path).n)
                 /\ othersKept(path)
                 /\ liveGraphUntouched ]_vars

\* the decay of the gate envelope was set to zero after a trigger, whose
\* decay ramp still ends where the old setting put it
C25_Witness ==
    /\ currentNote # null
    /\ params.vcaEnv.decay = 0 /\ params.vcaEnv.attack = 10
    /\ isTriggerAt(automation.vca, now)
    /\ automation.vca[3].t = now + 10 + 100

\* ----- PROPERTIES: the held-value generator does not drift (C28) -----
\* C28: with the frequency parameter constant at f since construction and
\* sampleRate / f >= 1, the number of refreshes performed after n frames is
\* exactly floor(n * f / sampleRate): each refresh subtracts the threshold
\* from the phase and keeps the remainder
C28_NoDrift ==
    proc.steady /\ proc.paramFrequency > 0 /\ LfoSampleRate >= proc.paramFrequency =>
        proc.refreshes = (proc.frames * proc.paramFrequency) \div LfoSampleRate

\* a fractional period (1.6 frames at 5 Hz) over a whole second and more
C28_Witness ==
    /\ proc.steady /\ proc.paramFrequency = 5
    /\ proc.frames >= LfoSampleRate + BlockLen
    /\ proc.refreshes >= 5
    /\ proc.phase # 0

\* ----- PROPERTIES: initialization failure (C30) -----
\* the page has loaded and no graph has been built: every initialization so
\* far has failed
initFailed == loaded /\ graph.constructions = 0

\* C30: after the graph initialization has failed the engine is marked not
\* initialized; it becomes initialized again only in a step of the power
\* button; and every key-down is rejected, currentNote, currentFrequency and
\* pressedKeys left as they were and no envelope triggered
C30_FailedInitRejectsKeys ==
    [][ initFailed =>
          /\ ~isAudioInitialized
          /\ isAudioInitialized' => PowerClick
          /\ \A code \in Codes :
                pressOf(code) =>
                   /\ ev' = Ev("keydown", "rejected")
                   /\ UNCHANGED << currentNote, currentFrequency, pressedKeys, automation >> ]_vars

\* the initialization has failed and a note key-down has been rejected
C30_Witness ==
    /\ initFailed /\ ~isAudioInitialized
    /\ ev = Ev("keydown", "rejected")
    /\ currentNote = null /\ pressedKeys = noKeys

\* ----- PROPERTIES: the pitch of one oscillator (C26) -----
\* the ratios "the octave multiplier" can denote once the call has returned:
\* the one at the stored index when that is an index, any of the five otherwise
multipliersOf(octave) ==
    IF octave.kind = "number" /\ octave.n \in 0..(Len(octaveMultipliers) - 1)
    THEN {octaveMultipliers[octave.n + 1]}
    ELSE {octaveMultipliers[i] : i \in 1..Len(octaveMultipliers)}

\* C26: for every base frequency and every stored octave value (valid, out of
\* range, not an integer, not a number) the pitch returned is the base
\* frequency times the octave multiplier, clamped to [20 Hz, sampleRate/2],
\* and lies within [20 Hz, sampleRate/2]
C26_PitchIsBaseTimesMultiplier ==
    calc.done =>
        /\ \E m \in multipliersOf(calc.result.octave) :
              calc.result.freq = Max(MinFreq, Min(Nyquist, (calc.baseFreq * m.n) \div m.d))
        /\ calc.result.freq \in MinFreq..Nyquist

\* ----- PROPERTIES: the voice's bookkeeping (C33, C34) -----
\* C33: in every reachable state where currentNote is non-null, currentNote is
\* the note of some key that is marked held in pressedKeys
C33_SoundingNoteIsHeld ==
    currentNote # null => currentNote \in heldNotes(pressedKeys)

\* after the sounding note's key-up the voice fell back to a note whose key is
\* still held, while a second key stays held too
C33_Witness ==
    /\ ev = Ev("keyup", "fallback")
    /\ currentNote \in heldNotes(pressedKeys)
    /\ Cardinality(pressedKeys) = 2

\* C34: in every reachable state currentFrequency is 0 exactly when currentNote
\* is null, and otherwise it is midiToFreq(currentNote)
C34_FrequencyFollowsNote ==
    /\ (currentFrequency = 0) <=> (currentNote = null)
    /\ currentNote # null => currentFrequency = midiToFreq(currentNote)

\* a blur silenced a sounding voice: both fields were reset together
C34_Witness ==
    /\ ev = Ev("blur", "sounding")
    /\ currentNote = null /\ currentFrequency = 0

\* ----- PROPERTIES: focus loss and awaiting handlers (C32) -----
\* C32: after a blur the voice stays silent with pressedKeys empty until a new
\* key-down event is delivered: while the blur is the last key or focus event,
\* a step that is not a key-down leaves currentNote null and no key marked
\* held, so no handler that was awaiting a resume when the blur arrived marks
\* a key or starts a note
C32_SilentAfterBlur ==
    [][ ev.h = "blur" /\ ev'.h # "keydown" =>
            currentNote' = null /\ pressedKeys' = noKeys ]_vars

\* ----- PROPERTIES: the keyboard and the voice (C31, C35) -----
\* a keydown listener is suspended at its await of the resume
handlerAwaiting == \E i \in 1..Len(pending) : pending[i] \in NoteCodes

\* C31: no stuck note: in any interleaving of key-down, key-up, blur and resume
\* completions, once every key that was physically pressed has had its key-up
\* delivered and no keydown handler is still awaiting a resume, currentNote is
\* null
C31_NoStuckNote ==
    loaded /\ keyboard.down = {} /\ ~handlerAwaiting => currentNote = null

afterFrames(k) ==
    LET f  == proc'.paramFrequency
        p1 == IF f # proc.lastFrequency THEN recalculateInterval(proc, f) ELSE proc
    IN  processFrames(p1, p1.updateInterval, [i \in 1..k |-> 0])

\* C36: with the frequency parameter constant at f since construction and
\* sampleRate / f >= 1, after every processed frame the phase satisfies
\* 0 <= phase < samplesPerCycle, at most one refresh happens per frame, and
\* when sampleRate / f >= 2 no two refreshes happen on consecutive frames
C36_PhaseBelowCycle ==
    [][ /\ proc'.frames = proc.frames + BlockLen
        /\ proc'.steady
        /\ proc'.paramFrequency > 0
        /\ LfoSampleRate >= proc'.paramFrequency
        => /\ \A k \in 1..BlockLen :
                 /\ afterFrames(k).phase >= 0
                 /\ afterFrames(k).phase < proc'.updateInterval
                 /\ afterFrames(k).refreshes - afterFrames(k - 1).refreshes \in {0, 1}
           /\ afterFrames(BlockLen).phase = proc'.phase
           /\ LfoSampleRate >= 2 * proc'.paramFrequency =>
                 \A i \in 2..Len(refreshSeq') : refreshSeq'[i] - refreshSeq'[i - 1] >= 2 ]_vars

\* a refresh on a block's last frame has kept a remainder of less than one
\* frame in the phase
C36_Witness ==
    /\ proc.steady /\ proc.paramFrequency = 5
    /\ proc.refreshes >= 3
    /\ proc.blockRefreshes # << >>
    /\ proc.blockRefreshes[Len(proc.blockRefreshes)] = proc.frames
    /\ proc.phase > 0 /\ proc.phase < phaseUnit

====
